---- MODULE Spec2Model ----
(***************************************************************************)
(* Model of the chess engine's search core: the search thread              *)
(* (SearchThread), the parallel coordinator (findBestMoveImpl,             *)
(* assignDepths, voteForBestMove) and the recursive alpha-beta worker      *)
(* (Searcher).  Three specifications share this module:                    *)
(*   SpecCoord   one dispatch of findBestMoveImpl over the workers         *)
(*   SpecThread  SearchThread::run/think against its command surface       *)
(*   SpecSearch  Searcher's recursion over a small game, with cancellation *)
(***************************************************************************)
EXTENDS Integers, Sequences, FiniteSets, TLC

VARIABLES
    \* ---- coordinator (findBestMoveImpl) ----
    cStage,            \* position inside findBestMoveImpl
    cDepth,            \* the depth argument of findBestMoveImpl
    searcherDepth,     \* Searcher::depth of every searcher, index 1 = main
    cRoot,             \* kind of the root position handed to the workers
    moveCandidates,    \* the MoveRatings collected from the workers so far
    cResult,           \* what findBestMoveImpl returned
    \* ---- search thread (SearchThread) ----
    m_shouldPonder,          \* SearchThread::m_shouldPonder
    m_calculationRequested,  \* SearchThread::m_calculationRequested
    m_state,                 \* SearchThread::m_state: [pos, depth]
    stopToken,         \* the jthread's stop state: stop_requested()
    wpc,               \* where the search thread stands in run/think
    stateCopy,         \* the local stateCopy of think/run
    fDepth,            \* the depth handed to the findBestMove in flight
    rootsLeft,         \* searchers that have not yet entered their last root call
    anyNull,           \* some searcher's result carries the null move
    found,             \* what findBestMove returned to the search thread
    out,               \* the lines written to stdout
    cpc,               \* where the commanding thread stands in its command
    cmds,              \* the commands issued so far
    \* ---- searcher (Searcher) ----
    sStage,            \* "idle", "running", "done": where operator() stands
    m_helper,          \* Searcher::m_helper
    sDepth,            \* Searcher::depth
    iterDepth,         \* the depth of the iteration in progress
    sRoot,             \* the position handed to operator()
    sRepetitionMap,    \* the repetition map handed to operator()
    stack,             \* the calls of tryShortCircuit in flight, root first
    returned,          \* the MoveRating the last call returned, until taken
    table,             \* the position table
    m_killerMoves,     \* Searcher::m_killerMoves
    sResult,           \* what operator() returned
    sPast,             \* the results of the searches before this one
    \* ---- one MovePriority under trim ----
    tPriority,         \* the MovePriority
    tFirst,            \* its recommended depth as constructed
    tPrev,             \* its recommended depth before the latest trim
    tTrims,            \* the trims applied to it
    tAsserted,         \* a zAssert of SafeUnsigned has fired
    \* ---- one SafeUnsigned<std::uint8_t> under subToMin ----
    m_value,           \* SafeUnsigned::m_value
    uOriginal,         \* m_value before the call
    uSubbed,           \* the argument subbed
    uMin,              \* the argument min
    upc,               \* "call", "returned" or "aborted"
    uSubAsserted,      \* the zAssert of operator- has fired
    \* ---- shared ----
    stopRequested      \* AsyncSearchState::stopRequested

coordVars == <<cStage, cDepth, searcherDepth, cRoot, moveCandidates, cResult>>
threadVars == <<m_shouldPonder, m_calculationRequested, m_state, stopToken, wpc,
                stateCopy, fDepth, rootsLeft, anyNull, found, out, cpc, cmds>>
searchVars == <<sStage, m_helper, sDepth, iterDepth, sRoot, sRepetitionMap, stack,
                returned, table, m_killerMoves, sResult, sPast>>
trimVars == <<tPriority, tFirst, tPrev, tTrims, tAsserted>>
safeVars == <<m_value, uOriginal, uSubbed, uMin, upc, uSubAsserted>>
vars == <<coordVars, threadVars, searchVars, trimVars, safeVars, stopRequested>>

----------------------------------------------------------------------------
(* Values *)

\* Move::null()
NullMove == 0
\* std::nullopt of MoveRating::checkmateLevel
NoLevel == -1
\* std::numeric_limits<std::uint8_t>::max()
U8Max == 255
\* what findBestMoveImpl returns for std::nullopt
NoMove == [some |-> FALSE, move |-> NullMove]
SomeMove(m) == [some |-> TRUE, move |-> m]

MoveRating(m, r, inv, lvl) ==
    [move |-> m, rating |-> r, invalidTTEntry |-> inv, checkmateLevel |-> lvl]

RECURSIVE Pow2(_)
Pow2(n) == IF n = 0 THEN 1 ELSE 2 * Pow2(n - 1)

\* static_cast<std::uint8_t>(i)
CastU8(i) == i % (U8Max + 1)

----------------------------------------------------------------------------
(* Bounds of the coordinator specification *)

MaxSearchers == 3
MaxDepthC == 3
\* moves, ratings and checkmate levels a worker may report
CoordMoves == {1, 2}
CoordRatings == {0, 1}
CoordLevels == {1, 2, U8Max}

----------------------------------------------------------------------------
(* Rating arithmetic for the vote: exact fractions <<numerator, denominator>> *)

Frac(n, d) == <<n, d>>
FracAdd(a, b) == <<a[1] * b[2] + b[1] * a[2], a[2] * b[2]>>
FracGt(a, b) == a[1] * b[2] > b[1] * a[2]
FracEq(a, b) == a[1] * b[2] = b[1] * a[2]

----------------------------------------------------------------------------
(* AsyncSearchState::assignDepths *)

IsHelper(i) == i # 1

AssignDepthsParityFlipped(n, maxDepth) ==
    [i \in 1..n |->
        IF ~IsHelper(i) THEN maxDepth
        ELSE LET d == IF CastU8(i - 1) % 2 = 0 THEN 0 ELSE 1
             IN  IF maxDepth = 1 THEN maxDepth ELSE maxDepth - d]

\* index i of the model is index i-1 of std::views::enumerate(searchers)
AssignDepths(n, maxDepth) ==
    [i \in 1..n |->
        IF ~IsHelper(i) THEN maxDepth
        ELSE LET d == IF CastU8(i - 1) % 2 = 0 THEN 1 ELSE 0
             IN  IF maxDepth = 1 THEN maxDepth ELSE maxDepth - d]

----------------------------------------------------------------------------
(* Searcher::getVotingWeight *)

\* ret = 1 + 2^depth; ret *= 1.2 * (rating - worstScore) / maxScoreDiff when
\* maxScoreDiff # 0; ret += ret / checkmateLevel when a level is set.
GetVotingWeight(depth, mr, worstScore, maxScoreDiff) ==
    LET base   == Frac(1 + Pow2(depth), 1)
        scaled == IF maxScoreDiff # 0
                  THEN Frac(base[1] * 6 * (mr.rating - worstScore), 5 * maxScoreDiff)
                  ELSE base
    IN  IF mr.checkmateLevel # NoLevel /\ mr.checkmateLevel # 0
        THEN FracAdd(scaled, Frac(scaled[1], scaled[2] * mr.checkmateLevel))
        ELSE scaled

----------------------------------------------------------------------------
(* voteForBestMove *)

\* the projection of std::ranges::min_element: 255 for a result without a level
LevelKey(mr) == IF mr.checkmateLevel = NoLevel THEN U8Max ELSE mr.checkmateLevel

MinElementIndexLast(moves) ==
    CHOOSE i \in 1..Len(moves) :
        /\ \A j \in 1..Len(moves) : LevelKey(moves[i]) <= LevelKey(moves[j])
        /\ \A j \in (i + 1)..Len(moves) : LevelKey(moves[j]) > LevelKey(moves[i])

\* std::ranges::min_element: the first element whose key is smallest
MinElementIndex(moves) ==
    CHOOSE i \in 1..Len(moves) :
        /\ \A j \in 1..Len(moves) : LevelKey(moves[i]) <= LevelKey(moves[j])
        /\ \A j \in 1..(i - 1) : LevelKey(moves[j]) > LevelKey(moves[i])

MinRating(moves) ==
    CHOOSE r \in {moves[i].rating : i \in 1..Len(moves)} :
        \A i \in 1..Len(moves) : r <= moves[i].rating
MaxRating(moves) ==
    CHOOSE r \in {moves[i].rating : i \in 1..Len(moves)} :
        \A i \in 1..Len(moves) : r >= moves[i].rating

\* the accumulator of the voting loop: moveRatings, bestMove, bestVoteRating
VoteInit(moves) ==
    [moveRatings |-> [m \in {moves[i].move : i \in 1..Len(moves)} |-> Frac(0, 1)],
     bestMove |-> NullMove,
     bestVoteRating |-> Frac(0, 1)]

VoteStepGeq(acc, m, w) ==
    LET voteRating == FracAdd(acc.moveRatings[m], w)
    IN  [moveRatings |-> [acc.moveRatings EXCEPT ![m] = voteRating],
         bestMove |-> IF ~FracGt(acc.bestVoteRating, voteRating) THEN m ELSE acc.bestMove,
         bestVoteRating |-> IF ~FracGt(acc.bestVoteRating, voteRating)
                            THEN voteRating ELSE acc.bestVoteRating]

\* voteRating += weight; if (voteRating > bestVoteRating) { ... }
VoteStep(acc, m, w) ==
    LET voteRating == FracAdd(acc.moveRatings[m], w)
    IN  [moveRatings |-> [acc.moveRatings EXCEPT ![m] = voteRating],
         bestMove |-> IF FracGt(voteRating, acc.bestVoteRating) THEN m ELSE acc.bestMove,
         bestVoteRating |-> IF FracGt(voteRating, acc.bestVoteRating)
                            THEN voteRating ELSE acc.bestVoteRating]

RECURSIVE VoteLoop(_, _, _, _, _)
VoteLoop(depths, moves, worstScore, maxScoreDiff, k) ==
    IF k = 0 THEN VoteInit(moves)
    ELSE VoteStep(VoteLoop(depths, moves, worstScore, maxScoreDiff, k - 1),
                  moves[k].move,
                  GetVotingWeight(depths[k], moves[k], worstScore, maxScoreDiff))

VoteForBestMove(depths, moves) ==
    IF \E i \in 1..Len(moves) : moves[i].checkmateLevel # NoLevel
    THEN moves[MinElementIndex(moves)].move
    ELSE LET worstScore   == MinRating(moves)
             maxScoreDiff == MaxRating(moves) - worstScore
         IN  VoteLoop(depths, moves, worstScore, maxScoreDiff, Len(moves)).bestMove

----------------------------------------------------------------------------
(* Values of the search thread *)

\* searchers of the pool in the search-thread specification
ThreadSearchers == 2
\* commands the commanding thread issues
MaxCommands == 3
\* positions the GUI sends: "A" and "B" have legal moves, "T" has none
GuiPositions == {"A", "B", "T"}
\* depths the GUI asks for
GuiDepths == {1, 2}
\* the depth of a ponder search: 255_su8
PonderDepth == 255

\* A position is the position first installed followed by the moves applied
\* to it; a move is named by the position it was searched from.
Position(base) == <<base>>
\* Position::move
ApplyMove(pos, move) == Append(pos, move)
BestMoveOf(pos) == [from |-> pos]
HasLegalMoves(pos) == pos[1] # "T"

GameState(pos, depth) == [pos |-> pos, depth |-> depth]

\* the thread variables while another specification runs
ThreadParked ==
    /\ m_shouldPonder = FALSE
    /\ m_calculationRequested = FALSE
    /\ m_state = GameState(Position("S"), 1)
    /\ stopToken = FALSE
    /\ wpc = "w_top"
    /\ stateCopy = GameState(Position("S"), 1)
    /\ fDepth = 0
    /\ rootsLeft = 0
    /\ anyNull = FALSE
    /\ found = NoMove
    /\ out = <<>>
    /\ cpc = "idle"
    /\ cmds = <<>>

----------------------------------------------------------------------------
(* Values of the searcher, Searcher *)

\* Searcher::MAX_DEPTH, MAX_KILLER_MOVES, RANDOMIZATION_CUTOFF
MAX_DEPTH == 30
MAX_KILLER_MOVES == 3
RANDOMIZATION_CUTOFF == 3
\* the deepest search of the searcher specification
MaxDepthS == 3

\* Ratings are whole numbers here: heuristic ratings are small, the two
\* sentinels of Chess.Rating lie outside them and differ from each other.
WorstPossibleRating(maximizing) == IF maximizing THEN -1000 ELSE 1000
CheckmatedRating(maximizing) == IF maximizing THEN -900 ELSE 900

\* A move: its identity (two moves are equal iff their ids are; moves of one
\* id agree in their pieces), the position it leads to, the ratings of the moved, captured and promotion pieces (0 is
\* Piece::None) and whether its destination is a square the enemy can move to.
Mv(id, to, moved, captured, attacked) ==
    [id |-> id, to |-> to, movedPiece |-> moved, capturedPiece |-> captured,
     promotionPiece |-> 0, toAttacked |-> attacked]

\* An ally piece standing on an enemy-attacked square (getTargets): its rating
\* and the moves that capture one of its attackers or block their rays.
Target(piece, evasions) == [piece |-> piece, evasions |-> evasions]

PositionData(white, rating, check, moves, targets) ==
    [white |-> white, rating |-> rating, check |-> check,
     legalMoves |-> moves, targets |-> targets]

\* The game: "R" is a middle-game position with a capture, an attacked knight
\* and a transposition below it ("Q2" is reached through "P1" and "P2");
\* "MB" is checkmate, "Q4" stalemate, "Z" and "Y" repeat each other; "W" has
\* five moves, the number at which trim shortens a search of depth 3; below
\* "V" the position "Z" is met one move and three moves from the root.
\* A line of single moves without a repetition, one ply longer than the killer
\* table has levels: "C0", "C1", ...; its last position is stalemate.
DeepLine == MAX_DEPTH + 1
LineName(n) == "C" \o ToString(n)
LineGame ==
    [p \in {LineName(n) : n \in 0..DeepLine} |->
        LET n == CHOOSE k \in 0..DeepLine : LineName(k) = p
        IN  PositionData(n % 2 = 0, 0, FALSE,
                IF n < DeepLine
                THEN <<Mv(IF n % 2 = 0 THEN 18 ELSE 19, LineName(n + 1), 1, 0, FALSE)>>
                ELSE <<>>,
                <<>>)]

Game ==
    LineGame @@
    ("R" :> PositionData(TRUE, 0, FALSE,
               <<Mv(1, "P1", 3, 0, FALSE), Mv(2, "P2", 1, 0, TRUE),
                 Mv(3, "P3", 1, 3, FALSE)>>,
               <<Target(3, {2})>>))
    @@ ("P1" :> PositionData(FALSE, 1, FALSE,
               <<Mv(4, "Q1", 1, 0, FALSE), Mv(5, "Q2", 1, 0, TRUE)>>, <<>>))
    @@ ("P2" :> PositionData(FALSE, -1, FALSE,
               <<Mv(4, "Q2", 1, 0, FALSE), Mv(6, "Q3", 3, 0, FALSE)>>, <<>>))
    @@ ("P3" :> PositionData(FALSE, 3, FALSE,
               <<Mv(5, "Q3", 1, 0, FALSE), Mv(7, "Q4", 3, 0, TRUE)>>, <<>>))
    @@ ("Q1" :> PositionData(TRUE, 2, FALSE,
               <<Mv(1, "L2", 3, 0, FALSE), Mv(12, "L1", 1, 1, FALSE)>>, <<>>))
    @@ ("Q2" :> PositionData(TRUE, 0, FALSE,
               <<Mv(1, "L2", 3, 0, FALSE), Mv(8, "MB", 5, 0, FALSE)>>, <<>>))
    @@ ("Q3" :> PositionData(TRUE, -2, FALSE,
               <<Mv(8, "L3", 1, 0, FALSE)>>, <<>>))
    @@ ("Q4" :> PositionData(TRUE, 1, FALSE, <<>>, <<>>))
    @@ ("L1" :> PositionData(FALSE, 2, FALSE, <<Mv(9, "Z", 1, 0, FALSE)>>, <<>>))
    @@ ("L2" :> PositionData(FALSE, -1, FALSE, <<Mv(9, "Z", 1, 0, FALSE)>>, <<>>))
    @@ ("L3" :> PositionData(FALSE, 1, FALSE, <<Mv(9, "Z", 1, 0, FALSE)>>, <<>>))
    @@ ("Z" :> PositionData(TRUE, 0, FALSE, <<Mv(10, "Y", 1, 0, FALSE)>>, <<>>))
    @@ ("Y" :> PositionData(FALSE, 0, FALSE, <<Mv(11, "Z", 1, 0, FALSE)>>, <<>>))
    @@ ("MB" :> PositionData(FALSE, -5, TRUE, <<>>, <<>>))
    @@ ("V" :> PositionData(FALSE, 0, FALSE,
               <<Mv(21, "Z", 1, 0, FALSE), Mv(22, "Q1", 1, 0, FALSE)>>, <<>>))
    @@ ("W" :> PositionData(TRUE, 0, FALSE,
               <<Mv(13, "L1", 1, 0, FALSE), Mv(14, "L2", 1, 0, FALSE),
                 Mv(15, "L3", 1, 0, FALSE), Mv(16, "Y", 1, 0, FALSE),
                 Mv(17, "P3", 3, 1, TRUE)>>, <<>>))

Positions == DOMAIN Game
\* the positions a search starts from
SearchRoots == {"R", "P1", "Q2", "V", "W"}
\* the roots of a helper: the shuffles of five moves are left out
HelperRoots == SearchRoots \ {"W"}

LegalMoves(pos) == Game[pos].legalMoves
\* PositionData::isCheckmate, for a position without legal moves
IsCheckmate(pos) == Game[pos].check
\* Node::getRating: the heuristic rating of the node's position
Rating(pos) == Game[pos].rating
MoveIn(pos, id) == CHOOSE k \in 1..Len(LegalMoves(pos)) : LegalMoves(pos)[k].id = id
HasMove(pos, id) == \E k \in 1..Len(LegalMoves(pos)) : LegalMoves(pos)[k].id = id
\* Position{pos, move}; a move the position does not have leaves it in place
ChildPosition(pos, id) ==
    IF HasMove(pos, id) THEN LegalMoves(pos)[MoveIn(pos, id)].to ELSE pos

\* RepetitionMap: how often each position occurred in the game and on the
\* path of the search
EmptyRepetitionMap == [p \in Positions |-> 0]
\* the repetition maps a search is started with
SearchRepetitionMaps ==
    {EmptyRepetitionMap,
     [EmptyRepetitionMap EXCEPT !["Q2"] = 1],
     [EmptyRepetitionMap EXCEPT !["Q2"] = 2]}
GetPositionCount(rep, pos) == rep[pos]
Push(rep, pos) == [rep EXCEPT ![pos] = @ + 1]

\* Searcher::wouldMakeRepetition
WouldMakeRepetition(pos, pvMove, rep) ==
    GetPositionCount(rep, ChildPosition(pos, pvMove)) + 1 >= 2

----------------------------------------------------------------------------
(* SafeUnsigned<std::uint8_t> *)

\* SafeUnsigned::subToMin without the comparison of the difference with min
SubToMinUnclamped(value, subbed, min) ==
    IF value < subbed THEN min ELSE value - subbed

\* SafeUnsigned::subToMin: the value left in *this
SubToMin(value, subbed, min) ==
    IF value < subbed THEN min
    ELSE LET diff == value - subbed IN IF diff < min THEN min ELSE diff

----------------------------------------------------------------------------
(* MovePriority and move ordering *)

MovePriority(move, exchangeRating, depth, trimmed) ==
    [move |-> move, exchangeRating |-> exchangeRating,
     recommendedDepth |-> depth, trimmed |-> trimmed]

CalcExchangeRating(m) ==
    (IF m.toAttacked THEN 0 - m.movedPiece ELSE 0) + m.promotionPiece + m.capturedPiece

\* MovePriority::MAX_MOVE_COUNT, the size of LOG_TABLE
MAX_MOVE_COUNT == 219
\* the unit the logarithms of LOG_TABLE are counted in
LogUnit == 5800
\* makeLog2Table: entry i + 1 is log2(i) for i in 1..218, rounded to a whole
\* number of units; entry 1 is the 0 left at index 0
LOG_TABLE ==
    <<
       0, 0, 5800, 9193, 11600, 13467, 14993, 16283, 17400, 18386,
       19267, 20065, 20793, 21463, 22083, 22660, 23200, 23707, 24186, 24638,
       25067, 25475, 25865, 26237, 26593, 26934, 27263, 27578, 27883, 28176,
       28460, 28734, 29000, 29257, 29507, 29750, 29986, 30215, 30438, 30655,
       30867, 31074, 31275, 31472, 31665, 31853, 32037, 32217, 32393, 32565,
       32734, 32900, 33063, 33222, 33378, 33532, 33683, 33831, 33976, 34119,
       34260, 34398, 34534, 34668, 34800, 34930, 35057, 35183, 35307, 35429,
       35550, 35669, 35786, 35901, 36015, 36127, 36238, 36347, 36455, 36562,
       36667, 36771, 36874, 36975, 37075, 37174, 37272, 37369, 37465, 37559,
       37653, 37745, 37837, 37927, 38017, 38105, 38193, 38279, 38365, 38450,
       38534, 38618, 38700, 38782, 38863, 38943, 39022, 39101, 39178, 39255,
       39332, 39408, 39483, 39557, 39631, 39704, 39776, 39848, 39919, 39990,
       40060, 40129, 40198, 40267, 40334, 40402, 40468, 40534, 40600, 40665,
       40730, 40794, 40857, 40921, 40983, 41046, 41107, 41169, 41229, 41290,
       41350, 41409, 41469, 41527, 41586, 41643, 41701, 41758, 41815, 41871,
       41927, 41983, 42038, 42093, 42147, 42202, 42255, 42309, 42362, 42415,
       42467, 42519, 42571, 42623, 42674, 42725, 42775, 42825, 42875, 42925,
       42974, 43024, 43072, 43121, 43169, 43217, 43265, 43312, 43359, 43406,
       43453, 43499, 43545, 43591, 43637, 43682, 43727, 43772, 43817, 43861,
       43905, 43949, 43993, 44036, 44079, 44123, 44165, 44208, 44250, 44292,
       44334, 44376, 44418, 44459, 44500, 44541, 44582, 44622, 44663, 44703,
       44743, 44782, 44822, 44861, 44901, 44940, 44978, 45017, 45055 >>

\* static_cast<std::uint8_t>(0.99 + (logDepth * logI / 3.14)) for the table
\* indices a and b, a whole number below 21: in these units the quotient has
\* the integer part of the double it stands for at every pair of indices
ReducedDepth(a, b) ==
    (31086 * ((LogUnit \div 100) * (LogUnit \div 100)) + LOG_TABLE[a + 1] * LOG_TABLE[b + 1])
        \div (31400 * ((LogUnit \div 100) * (LogUnit \div 100)))

\* the values reducedDepth can take: LOG_TABLE[a] with a beyond the table is a
\* read past the array, after which the cast can give any 8-bit value
ReducedDepths(a, b) ==
    IF a < MAX_MOVE_COUNT /\ b < MAX_MOVE_COUNT THEN {ReducedDepth(a, b)}
    ELSE 0..U8Max

\* TrimBy without the minimum with the depth before
TrimByNoMin(p, reducedDepth) ==
    [p EXCEPT !.trimmed = TRUE,
              !.recommendedDepth = SubToMin(p.recommendedDepth + 1, reducedDepth, 0)]

\* MovePriority::trim from reducedDepth on
TrimBy(p, reducedDepth) ==
    LET subbed == SubToMin(p.recommendedDepth + 1, reducedDepth, 0)
    IN  [p EXCEPT !.trimmed = TRUE,
                  !.recommendedDepth = IF subbed < @ THEN subbed ELSE @]

\* MovePriority::trim
Trim(p, moveIndex) ==
    TrimBy(p, ReducedDepth(p.recommendedDepth + 1, moveIndex + 1))

\* the zAssert of SafeUnsigned operator+ and of subToMin
AddAsserts(a, b) == U8Max - a < b
\* the zAssert of SafeUnsigned operator-
SubAsserts(a, b) == ~(a >= b)
SubToMinAsserts(value, min) == min > value
\* a zAssert of SafeUnsigned fires inside trim
TrimAsserts(p, moveIndex) ==
    \/ AddAsserts(p.recommendedDepth, 1)
    \/ AddAsserts(moveIndex, 1)
    \/ SubToMinAsserts(p.recommendedDepth + 1, 0)

\* the trim variables while another specification runs
SafeParked ==
    /\ m_value = 0
    /\ uOriginal = 0
    /\ uSubbed = 0
    /\ uMin = 0
    /\ upc = "returned"
    /\ uSubAsserted = FALSE

TrimParked ==
    /\ tPriority = MovePriority(NullMove, 0, 0, FALSE)
    /\ tFirst = 0
    /\ tPrev = 0
    /\ tTrims = 0
    /\ tAsserted = FALSE

\* std::ranges::sort by descending exchange rating; moves of equal rating keep
\* the order of the legal-move list
RECURSIVE SortByExchangeRating(_)
SortByExchangeRating(ps) ==
    IF Len(ps) <= 1 THEN ps
    ELSE LET h == Head(ps)
             rest == SortByExchangeRating(Tail(ps))
             k == Cardinality({j \in 1..Len(rest) :
                                  rest[j].exchangeRating > h.exchangeRating})
         IN  SubSeq(rest, 1, k) \o <<h>> \o SubSeq(rest, k + 1, Len(rest))

\* A range of the priorities is the list with the index its range starts at.
Range(ps, from) == [ps |-> ps, from |-> from]

\* std::ranges::stable_partition(range, pred), `chosen` being the moves pred
\* is true of: the true part first, and the range of the false part
StablePartition(r, chosen) ==
    LET pre == SubSeq(r.ps, 1, r.from - 1)
        rng == SubSeq(r.ps, r.from, Len(r.ps))
        Pred(p) == p.move \in chosen
        NotPred(p) == p.move \notin chosen
        yes == SelectSeq(rng, Pred)
        no == SelectSeq(rng, NotPred)
    IN  Range(pre \o yes \o no, r.from + Len(yes))

\* movePVMoveToFront
MovePVMoveToFront(ps, pvMove) ==
    IF pvMove # NullMove /\ \E k \in 1..Len(ps) : ps[k].move = pvMove
    THEN LET k == CHOOSE j \in 1..Len(ps) :
                     /\ ps[j].move = pvMove
                     /\ \A i \in 1..(j - 1) : ps[i].move # pvMove
         IN  Range([ps EXCEPT ![1] = ps[k], ![k] = ps[1]], 2)
    ELSE Range(ps, 1)

\* orderCapturesAndEvasionsFirst, one attacked piece after the other
RECURSIVE OrderCapturesAndEvasionsFirst(_, _)
OrderCapturesAndEvasionsFirst(r, targets) ==
    IF targets = <<>> THEN r
    ELSE LET attackedPiece == Head(targets)
             Better(p) == \/ p.exchangeRating >= attackedPiece.piece
                          \/ p.move \in attackedPiece.evasions
             chosen == {r.ps[k].move : k \in {j \in 1..Len(r.ps) : Better(r.ps[j])}}
         IN  OrderCapturesAndEvasionsFirst(StablePartition(r, chosen), Tail(targets))

\* orderKillerMovesFirst; the moves of each part keep their order
OrderKillerMovesFirst(r, killerMoves) ==
    LET IsKiller(p) == \E k \in 1..Len(killerMoves) : killerMoves[k] = p.move
        chosen == {r.ps[k].move : k \in {j \in 1..Len(r.ps) : IsKiller(r.ps[j])}}
    IN  StablePartition(r, chosen)

\* getMovePrioritiesImpl
GetMovePrioritiesImpl(pos, remainingDepth, pvMove, killerMoves) ==
    LET moves == LegalMoves(pos)
        priorities == [k \in 1..Len(moves) |->
                          MovePriority(moves[k].id, CalcExchangeRating(moves[k]),
                                       remainingDepth - 1, FALSE)]
        nonPVMoves == MovePVMoveToFront(SortByExchangeRating(priorities), pvMove)
        nonMaterialMoves == OrderCapturesAndEvasionsFirst(nonPVMoves, Game[pos].targets)
        likelyBadMoves == OrderKillerMovesFirst(nonMaterialMoves, killerMoves)
        baseOffset == likelyBadMoves.from - 1
    IN  IF remainingDepth - 1 # 0
        THEN [k \in 1..Len(moves) |->
                 IF k >= likelyBadMoves.from
                 THEN Trim(likelyBadMoves.ps[k], CastU8(baseOffset + (k - likelyBadMoves.from)))
                 ELSE likelyBadMoves.ps[k]]
        ELSE likelyBadMoves.ps

\* std::ranges::shuffle: any order of the list
Shuffles(ps) ==
    {[k \in 1..Len(ps) |-> ps[f[k]]] : f \in Permutations(1..Len(ps))}
----------------------------------------------------------------------------
(* The searcher, Searcher *)

\* AlphaBeta
AlphaBeta(alpha, beta) == [alpha |-> alpha, beta |-> beta]
InitialAlphaBeta == AlphaBeta(WorstPossibleRating(TRUE), WorstPossibleRating(FALSE))
UpdateAlpha(ab, r) == [ab EXCEPT !.alpha = IF r > @ THEN r ELSE @]
UpdateBeta(ab, r) == [ab EXCEPT !.beta = IF r < @ THEN r ELSE @]
Update(maximizing, ab, r) == IF maximizing THEN UpdateAlpha(ab, r) ELSE UpdateBeta(ab, r)
CanPrune(ab) == ab.beta <= ab.alpha

\* PositionEntry that forgets the best move
PositionEntryWithoutMove(bestMove, rating, depth, bound) ==
    [present |-> TRUE, bestMove |-> NullMove, rating |-> rating,
     depth |-> depth, bound |-> bound]

\* PositionTable: at most one entry for each position
PositionEntry(bestMove, rating, depth, bound) ==
    [present |-> TRUE, bestMove |-> bestMove, rating |-> rating,
     depth |-> depth, bound |-> bound]
NoEntry == [present |-> FALSE, bestMove |-> NullMove, rating |-> 0,
            depth |-> 0, bound |-> "InWindow"]
EmptyTable == [p \in Positions |-> NoEntry]
GetPositionEntry(tbl, pos) == tbl[pos]
StorePositionEntry(tbl, pos, entry) == [tbl EXCEPT ![pos] = entry]

\* KillerMoveEntries of every level, as the constructor leaves them
KillerMoveEntries(moves, index) == [killerMoves |-> moves, index |-> index]
NoKillerMoves ==
    [l \in 0..(MAX_DEPTH - 1) |->
        KillerMoveEntries([k \in 1..MAX_KILLER_MOVES |-> NullMove], 0)]
\* AddKillerMove with an index that stays where it is
AddKillerMoveStuck(entries, move) ==
    KillerMoveEntries([entries.killerMoves EXCEPT ![entries.index + 1] = move],
                      entries.index)

\* killerMoves.killerMoves[killerMoves.index] = move; the index wraps
AddKillerMove(entries, move) ==
    KillerMoveEntries([entries.killerMoves EXCEPT ![entries.index + 1] = move],
                      IF entries.index + 1 = MAX_KILLER_MOVES THEN 0
                      ELSE entries.index + 1)

\* auto& killerMoves = m_killerMoves[level]: the ring of the level; past the
\* MAX_DEPTH rings of the array the read yields whatever lies behind them, no
\* move or a move of the position (a write there leaves the rings as they are)
KillerMovesRead(level, pos) ==
    IF level < MAX_DEPTH THEN {m_killerMoves[level].killerMoves}
    ELSE {[k \in 1..MAX_KILLER_MOVES |-> NullMove]}
         \cup {[k \in 1..MAX_KILLER_MOVES |->
                   IF k = 1 THEN LegalMoves(pos)[j].id ELSE NullMove] :
                j \in 1..Len(LegalMoves(pos))}

DefaultMoveRating == MoveRating(NullMove, 0, FALSE, NoLevel)

\* One call of tryShortCircuit, with the locals of the bestChildPosition it
\* may run into.  phase: "enter" before the first test, "table" past the stop
\* test of line 137, "loop" before the next child is searched, "await" while
\* a child is searched, "store" after the loop.  stopAtChild records that
\* stopRequested was already true when the call went to search a child.
Frame(pos, level, remainingDepth, rep, maximizing, ab) ==
    [pos |-> pos, level |-> level, remainingDepth |-> remainingDepth,
     repetitionMap |-> rep, maximizing |-> maximizing, alphaBeta |-> ab,
     phase |-> "enter", originalAlphaBeta |-> ab, movePriorities |-> <<>>,
     i |-> 0, research |-> FALSE, bestRating |-> DefaultMoveRating,
     bound |-> "InWindow", didNotPrune |-> TRUE, stopAtChild |-> FALSE]

\* Node{pos, depth, repetitionMap}: the root of one iteration
RootFrame(pos, depth, rep) ==
    Frame(pos, 0, depth, rep, Game[pos].white, InitialAlphaBeta)
\* ChildFrame that leaves the child at the level of its parent
ChildFrameAtLevelOfParent(f, move, depth) ==
    LET child == ChildPosition(f.pos, move)
    IN  Frame(child, f.level, depth, Push(f.repetitionMap, child),
              ~f.maximizing, f.alphaBeta)

\* Node{node, movePriority}: the child one move below, searched to `depth`
ChildFrame(f, move, depth) ==
    LET child == ChildPosition(f.pos, move)
    IN  Frame(child, f.level + 1, depth, Push(f.repetitionMap, child),
              ~f.maximizing, f.alphaBeta)

NoReturn == [valid |-> FALSE, value |-> DefaultMoveRating, pos |-> "R",
             count |-> 0, stop |-> FALSE, searched |-> FALSE]

\* the searcher variables while another specification runs
SearchParked ==
    /\ sStage = "idle"
    /\ m_helper = FALSE
    /\ sDepth = 0
    /\ iterDepth = 0
    /\ sRoot = "R"
    /\ sRepetitionMap = EmptyRepetitionMap
    /\ stack = <<>>
    /\ returned = NoReturn
    /\ table = EmptyTable
    /\ m_killerMoves = NoKillerMoves
    /\ sResult = DefaultMoveRating
    /\ sPast = <<>>

----------------------------------------------------------------------------
(* findBestMoveImpl *)

HasNullMoveMainOnly(moves) == moves[1].move = NullMove

HasNullMove(moves) == \E i \in 1..Len(moves) : moves[i].move = NullMove

\* Searcher::tryShortCircuit on a node without legal moves
\* TerminalResult with the level of the parent of the checkmated node
TerminalResultAtParent(isCheckmate, checkmatedRating, level) ==
    IF isCheckmate THEN MoveRating(NullMove, checkmatedRating, FALSE, level - 1)
    ELSE MoveRating(NullMove, 0, FALSE, NoLevel)

TerminalResult(isCheckmate, checkmatedRating, level) ==
    IF isCheckmate THEN MoveRating(NullMove, checkmatedRating, FALSE, level)
    ELSE MoveRating(NullMove, 0, FALSE, NoLevel)

\* What Searcher::operator() can hand back for a root of kind `root`: the
\* terminal result when the root has no legal move; otherwise either the
\* cancelled result of the root (null move, the root's heuristic rating) or a
\* result carrying one of the root's moves.
WorkerResults(root, stop) ==
    IF root = "stalemate" THEN {TerminalResult(FALSE, 0, 0)}
    ELSE IF root = "checkmate" THEN {TerminalResult(TRUE, 0, 0)}
    ELSE (IF stop THEN {MoveRating(NullMove, r, FALSE, NoLevel) : r \in CoordRatings}
          ELSE {})
         \cup {MoveRating(m, r, FALSE, l) :
                  m \in CoordMoves, r \in CoordRatings, l \in CoordLevels \cup {NoLevel}}

\* the coordinator variables while another specification runs
CoordParked ==
    /\ cStage = "idle"
    /\ cDepth = 0
    /\ searcherDepth = <<0>>
    /\ cRoot = "normal"
    /\ moveCandidates = <<>>
    /\ cResult = NoMove

\* a fresh AsyncSearchState: every Searcher::depth is 0_su8
CoordInit ==
    /\ cStage = "idle"
    /\ cDepth = 0
    /\ \E n \in 1..MaxSearchers : searcherDepth = [i \in 1..n |-> 0]
    /\ cRoot \in {"normal", "stalemate", "checkmate"}
    /\ moveCandidates = <<>>
    /\ cResult = NoMove
    /\ stopRequested \in BOOLEAN
    /\ ThreadParked
    /\ SearchParked
    /\ TrimParked
    /\ SafeParked

\* state->assignDepths(depth); state->stopRequested.store(false);
CoordDispatch(depth) ==
    /\ cStage = "idle"
    /\ cDepth' = depth
    /\ searcherDepth' = AssignDepths(Len(searcherDepth), depth)
    /\ stopRequested' = FALSE
    /\ cStage' = "searching"
    /\ UNCHANGED <<cRoot, moveCandidates, cResult>>

\* one future of submit_sequence completes
CoordCollect(mr) ==
    /\ cStage = "searching"
    /\ Len(moveCandidates) < Len(searcherDepth)
    /\ moveCandidates' = Append(moveCandidates, mr)
    /\ UNCHANGED <<cStage, cDepth, searcherDepth, cRoot, cResult, stopRequested>>

\* moveCandidateFutures.get() returned; the null-move test
CoordCheckNull ==
    /\ cStage = "searching"
    /\ Len(moveCandidates) = Len(searcherDepth)
    /\ IF HasNullMove(moveCandidates)
       THEN cStage' = "done" /\ cResult' = NoMove
       ELSE cStage' = "voting" /\ UNCHANGED cResult
    /\ UNCHANGED <<cDepth, searcherDepth, cRoot, moveCandidates, stopRequested>>

\* return voteForBestMove(state->searchers, moveCandidates);
CoordVote ==
    /\ cStage = "voting"
    /\ cResult' = SomeMove(VoteForBestMove(searcherDepth, moveCandidates))
    /\ cStage' = "done"
    /\ UNCHANGED <<cDepth, searcherDepth, cRoot, moveCandidates, stopRequested>>

\* AsyncSearch::cancel while the workers run
CoordCancel ==
    /\ cStage = "searching"
    /\ ~stopRequested
    /\ stopRequested' = TRUE
    /\ UNCHANGED coordVars

CoordNext ==
    /\ \/ \E depth \in 1..MaxDepthC : CoordDispatch(depth)
       \/ \E mr \in WorkerResults(cRoot, stopRequested) : CoordCollect(mr)
       \/ CoordCheckNull
       \/ CoordVote
       \/ CoordCancel
    /\ UNCHANGED <<threadVars, searchVars, trimVars, safeVars>>

SpecCoord == CoordInit /\ [][CoordNext]_vars

----------------------------------------------------------------------------
(* The search thread, SearchThread *)

\* SearchThread::SearchThread: the jthread starts in run; no command yet
ThreadInit ==
    /\ ThreadParked
    /\ stopRequested = FALSE
    /\ CoordParked
    /\ SearchParked
    /\ TrimParked
    /\ SafeParked

wLocals == <<stateCopy, fDepth, rootsLeft, anyNull, found>>

\* stateCopy and the move go out of scope at the end of the loop body
LocalsDie ==
    /\ stateCopy' = GameState(Position("S"), 1)
    /\ fDepth' = 0
    /\ rootsLeft' = 0
    /\ anyNull' = FALSE
    /\ found' = NoMove
mutexed == <<m_shouldPonder, m_calculationRequested, m_state>>
callerVars == <<cpc, cmds>>

(* ---- findBestMoveImpl as the search thread sees it ---- *)

\* state->assignDepths(depth); state->stopRequested.store(false); the
\* searchers are submitted to the pool
FindBegin(depth, next) ==
    /\ fDepth' = depth
    /\ stopRequested' = FALSE
    /\ rootsLeft' = ThreadSearchers
    /\ anyNull' = FALSE
    /\ wpc' = next
    /\ UNCHANGED <<mutexed, stopToken, stateCopy, found, out, callerVars>>

\* The result of one searcher is settled when it enters tryShortCircuit on the
\* root of its last iteration: a root without legal moves, or a stop request
\* seen there, gives the null move; past that test bestChildPosition returns
\* one of the root's moves whatever stopRequested becomes.
RootNullMove(pos, stop) == ~HasLegalMoves(pos) \/ stop

FindRootCall ==
    /\ wpc \in {"t_run", "r_run"}
    /\ rootsLeft > 0
    /\ rootsLeft' = rootsLeft - 1
    /\ anyNull' = (anyNull \/ RootNullMove(stateCopy.pos, stopRequested))
    /\ UNCHANGED <<mutexed, stopToken, wpc, stateCopy, fDepth, found, out,
                   callerVars, stopRequested>>

\* moveCandidateFutures.get(); hasNullMove ? std::nullopt : voteForBestMove
FindReturn ==
    /\ wpc \in {"t_run", "r_run"}
    /\ rootsLeft = 0
    /\ found' = IF anyNull THEN NoMove ELSE SomeMove(BestMoveOf(stateCopy.pos))
    /\ wpc' = IF wpc = "t_run" THEN "t_ret" ELSE "r_ret"
    /\ UNCHANGED <<mutexed, stopToken, stateCopy, fDepth, rootsLeft, anyNull, out,
                   callerVars, stopRequested>>

(* ---- SearchThread::think ---- *)

\* while (!stopToken.stop_requested())
ThinkLoop ==
    /\ wpc = "t_top"
    /\ wpc' = IF stopToken THEN "r_check" ELSE "t_peek"
    /\ UNCHANGED <<mutexed, stopToken, wLocals, out, callerVars, stopRequested>>

\* { scoped_lock; if (m_calculationRequested) break; }
ThinkPeek ==
    /\ wpc = "t_peek"
    /\ wpc' = IF m_calculationRequested THEN "r_check" ELSE "t_wait"
    /\ UNCHANGED <<mutexed, stopToken, wLocals, out, callerVars, stopRequested>>

WaitPredicate == m_shouldPonder \/ m_calculationRequested

\* m_cv.wait(ul, stopToken, pred) with the mutex held, then the test and the
\* snapshot that follow it under the same lock
ThinkWait ==
    /\ wpc = "t_wait"
    /\ IF ~stopToken /\ ~WaitPredicate
       THEN wpc' = "t_blocked" /\ UNCHANGED stateCopy
       ELSE IF stopToken \/ ~m_shouldPonder \/ m_calculationRequested
            THEN wpc' = "r_check" /\ UNCHANGED stateCopy
            ELSE wpc' = "t_find" /\ stateCopy' = m_state
    /\ UNCHANGED <<mutexed, stopToken, fDepth, rootsLeft, anyNull, found, out,
                   callerVars, stopRequested>>

\* m_searcher.findBestMove(stateCopy.pos, 255_su8, stateCopy.repetitionMap)
ThinkFind ==
    /\ wpc = "t_find"
    /\ FindBegin(PonderDepth, "t_run")

\* if (!move) { scoped_lock; if (!m_calculationRequested) m_shouldPonder = false; }
ClearAfterPonder(move, calc, ponder) ==
    IF ~move.some /\ ~calc THEN FALSE ELSE ponder

ThinkReturn ==
    /\ wpc = "t_ret"
    /\ m_shouldPonder' = ClearAfterPonder(found, m_calculationRequested, m_shouldPonder)
    /\ wpc' = "t_top"
    /\ LocalsDie
    /\ UNCHANGED <<m_calculationRequested, m_state, stopToken, out,
                   callerVars, stopRequested>>

(* ---- SearchThread::run ---- *)

\* while (!stopToken.stop_requested()) think(stopToken);
RunLoop ==
    /\ wpc = "w_top"
    /\ wpc' = IF stopToken THEN "w_exit" ELSE "t_top"
    /\ UNCHANGED <<mutexed, stopToken, wLocals, out, callerVars, stopRequested>>

\* if (stopToken.stop_requested()) break;
RunCheck ==
    /\ wpc = "r_check"
    /\ wpc' = IF stopToken THEN "w_exit" ELSE "r_snap"
    /\ UNCHANGED <<mutexed, stopToken, wLocals, out, callerVars, stopRequested>>

\* the snapshot of run without m_calculationRequested = false
RunSnapshotKeepsRequest ==
    /\ wpc = "r_snap"
    /\ stateCopy' = m_state
    /\ wpc' = "r_find"
    /\ UNCHANGED <<m_calculationRequested, m_shouldPonder, m_state, stopToken,
                   fDepth, rootsLeft, anyNull, found, out, callerVars, stopRequested>>

\* { unique_lock; stateCopy = m_state; m_calculationRequested = false; }
RunSnapshot ==
    /\ wpc = "r_snap"
    /\ stateCopy' = m_state
    /\ m_calculationRequested' = FALSE
    /\ wpc' = "r_find"
    /\ UNCHANGED <<m_shouldPonder, m_state, stopToken, fDepth, rootsLeft, anyNull,
                   found, out, callerVars, stopRequested>>

\* m_searcher.findBestMove(stateCopy.pos, stateCopy.depth, ...)
RunFind ==
    /\ wpc = "r_find"
    /\ FindBegin(stateCopy.depth, "r_run")

\* if (auto bestMove = ...) { if (!stop_requested()) { println; fflush; ...
\* } else { scoped_lock; m_shouldPonder = false; }
RunReturn ==
    /\ wpc = "r_ret"
    /\ IF found.some
       THEN IF ~stopToken
            THEN /\ out' = Append(out, found.move)
                 /\ wpc' = "r_apply"
                 /\ UNCHANGED <<m_shouldPonder, wLocals>>
            ELSE /\ wpc' = "w_top"
                 /\ LocalsDie
                 /\ UNCHANGED <<out, m_shouldPonder>>
       ELSE /\ m_shouldPonder' = FALSE
            /\ wpc' = "w_top"
            /\ LocalsDie
            /\ UNCHANGED out
    /\ UNCHANGED <<m_calculationRequested, m_state, stopToken,
                   callerVars, stopRequested>>

\* scoped_lock; if (!m_calculationRequested) { m_state.pos.move(*bestMove);
\* m_shouldPonder = true; }
RunApply ==
    /\ wpc = "r_apply"
    /\ IF ~m_calculationRequested
       THEN /\ m_state' = [m_state EXCEPT !.pos = ApplyMove(m_state.pos, found.move)]
            /\ m_shouldPonder' = TRUE
       ELSE UNCHANGED <<m_state, m_shouldPonder>>
    /\ wpc' = "w_top"
    /\ LocalsDie
    /\ UNCHANGED <<m_calculationRequested, stopToken, out, callerVars,
                   stopRequested>>

(* ---- the command surface, called from the commanding thread ---- *)

\* a command as the history keeps it; flag: for setPosition, the position has
\* legal moves; for stop, a committed search was running when it was issued
Command(op, flag) == [op |-> op, flag |-> flag]
CommittedSearchRunning == wpc = "r_run"
CanIssue == cpc = "idle" /\ Len(cmds) < MaxCommands

\* m_cv.notify_one(): the search thread, if blocked in the wait, wakes
Woken == IF wpc = "t_blocked" THEN "t_wait" ELSE wpc

\* AsyncSearch::cancel
Cancel(next) ==
    /\ stopRequested' = TRUE
    /\ cpc' = next
    /\ UNCHANGED <<mutexed, stopToken, wpc, wLocals, out, cmds>>

Notify ==
    /\ wpc' = Woken
    /\ cpc' = "idle"
    /\ UNCHANGED <<mutexed, stopToken, wLocals, out, cmds, stopRequested>>

\* setPosition: { scoped_lock; m_shouldPonder = true; m_state = state; }
SetPositionLock(base, depth) ==
    /\ CanIssue
    /\ cmds' = Append(cmds, Command("setPosition", HasLegalMoves(Position(base))))
    /\ m_shouldPonder' = TRUE
    /\ m_state' = GameState(Position(base), depth)
    /\ cpc' = "sp_cancel"
    /\ UNCHANGED <<m_calculationRequested, stopToken, wpc, wLocals, out, stopRequested>>

SetPositionCancel == cpc = "sp_cancel" /\ Cancel("sp_notify")
SetPositionNotify == cpc = "sp_notify" /\ Notify

\* go: { scoped_lock; m_calculationRequested = true; m_shouldPonder = false;
\* m_state.depth = depth; }
GoLock(depth) ==
    /\ CanIssue
    /\ cmds' = Append(cmds, Command("go", FALSE))
    /\ m_calculationRequested' = TRUE
    /\ m_shouldPonder' = FALSE
    /\ m_state' = [m_state EXCEPT !.depth = depth]
    /\ cpc' = "go_cancel"
    /\ UNCHANGED <<stopToken, wpc, wLocals, out, stopRequested>>

GoCancel == cpc = "go_cancel" /\ Cancel("go_notify")
GoNotify == cpc = "go_notify" /\ Notify

\* stop: m_searcher.cancel(); { scoped_lock; m_shouldPonder = false; } notify
StopCancel ==
    /\ CanIssue
    /\ cmds' = Append(cmds, Command("stop", CommittedSearchRunning))
    /\ stopRequested' = TRUE
    /\ cpc' = "st_lock"
    /\ UNCHANGED <<mutexed, stopToken, wpc, wLocals, out>>

StopLock ==
    /\ cpc = "st_lock"
    /\ m_shouldPonder' = FALSE
    /\ cpc' = "st_notify"
    /\ UNCHANGED <<m_calculationRequested, m_state, stopToken, wpc, wLocals, out,
                   cmds, stopRequested>>

StopNotify == cpc = "st_notify" /\ Notify

\* ~SearchThread: m_searcher.cancel(); then m_thread's destructor requests
\* stop (which wakes the wait) and joins
ShutdownCancel ==
    /\ CanIssue
    /\ cmds' = Append(cmds, Command("shutdown", FALSE))
    /\ stopRequested' = TRUE
    /\ cpc' = "d_stop"
    /\ UNCHANGED <<mutexed, stopToken, wpc, wLocals, out>>

ShutdownRequestStop ==
    /\ cpc = "d_stop"
    /\ stopToken' = TRUE
    /\ wpc' = Woken
    /\ cpc' = "d_join"
    /\ UNCHANGED <<mutexed, wLocals, out, cmds, stopRequested>>

ShutdownJoin ==
    /\ cpc = "d_join"
    /\ wpc = "w_exit"
    /\ cpc' = "joined"
    /\ UNCHANGED <<mutexed, stopToken, wpc, wLocals, out, cmds, stopRequested>>

WorkerNext ==
    \/ RunLoop /\ UNCHANGED <<coordVars, searchVars, trimVars, safeVars>>
    \/ ThinkLoop /\ UNCHANGED <<coordVars, searchVars, trimVars, safeVars>>
    \/ ThinkPeek /\ UNCHANGED <<coordVars, searchVars, trimVars, safeVars>>
    \/ ThinkWait /\ UNCHANGED <<coordVars, searchVars, trimVars, safeVars>>
    \/ ThinkFind /\ UNCHANGED <<coordVars, searchVars, trimVars, safeVars>>
    \/ FindRootCall /\ UNCHANGED <<coordVars, searchVars, trimVars, safeVars>>
    \/ FindReturn /\ UNCHANGED <<coordVars, searchVars, trimVars, safeVars>>
    \/ ThinkReturn /\ UNCHANGED <<coordVars, searchVars, trimVars, safeVars>>
    \/ RunCheck /\ UNCHANGED <<coordVars, searchVars, trimVars, safeVars>>
    \/ RunSnapshot /\ UNCHANGED <<coordVars, searchVars, trimVars, safeVars>>
    \/ RunFind /\ UNCHANGED <<coordVars, searchVars, trimVars, safeVars>>
    \/ RunReturn /\ UNCHANGED <<coordVars, searchVars, trimVars, safeVars>>
    \/ RunApply /\ UNCHANGED <<coordVars, searchVars, trimVars, safeVars>>

CallerNext ==
    \/ \E base \in GuiPositions, depth \in GuiDepths :
          SetPositionLock(base, depth) /\ UNCHANGED <<coordVars, searchVars, trimVars, safeVars>>
    \/ SetPositionCancel /\ UNCHANGED <<coordVars, searchVars, trimVars, safeVars>>
    \/ SetPositionNotify /\ UNCHANGED <<coordVars, searchVars, trimVars, safeVars>>
    \/ \E depth \in GuiDepths : GoLock(depth) /\ UNCHANGED <<coordVars, searchVars, trimVars, safeVars>>
    \/ GoCancel /\ UNCHANGED <<coordVars, searchVars, trimVars, safeVars>>
    \/ GoNotify /\ UNCHANGED <<coordVars, searchVars, trimVars, safeVars>>
    \/ StopCancel /\ UNCHANGED <<coordVars, searchVars, trimVars, safeVars>>
    \/ StopLock /\ UNCHANGED <<coordVars, searchVars, trimVars, safeVars>>
    \/ StopNotify /\ UNCHANGED <<coordVars, searchVars, trimVars, safeVars>>
    \/ ShutdownCancel /\ UNCHANGED <<coordVars, searchVars, trimVars, safeVars>>
    \/ ShutdownRequestStop /\ UNCHANGED <<coordVars, searchVars, trimVars, safeVars>>
    \/ ShutdownJoin /\ UNCHANGED <<coordVars, searchVars, trimVars, safeVars>>

ThreadNext == WorkerNext \/ CallerNext

SpecThread == ThreadInit /\ [][ThreadNext]_vars

\* the search thread runs whenever it can: it is an OS thread of its own
FairThread == SpecThread /\ WF_vars(WorkerNext) /\ WF_vars(CallerNext)

----------------------------------------------------------------------------
(* MovePriority::trim on its own *)

\* the remaining depths of the parent and the move indices trim is given
TrimDepths == 1..U8Max
TrimIndices == 0..(MAX_MOVE_COUNT - 2)
\* a read past the table does not depend on the index: the least and the
\* largest index stand for all
TrimIndicesPastTable == {0, MAX_MOVE_COUNT - 2}

\* MovePriority(move, enemySquares, depth): recommended depth is depth - 1
TrimInit ==
    /\ \E depth \in TrimDepths :
          /\ tPriority = MovePriority(NullMove, 0, depth - 1, FALSE)
          /\ tFirst = depth - 1
          /\ tPrev = depth - 1
    /\ tTrims = 0
    /\ tAsserted = FALSE
    /\ SafeParked
    /\ stopRequested = FALSE
    /\ CoordParked
    /\ ThreadParked
    /\ SearchParked

\* movePriority.trim(moveIndex), both reads of LOG_TABLE inside the table
TrimInTable(moveIndex) ==
    /\ tTrims \in {0, 1}
    /\ tPriority.recommendedDepth + 1 < MAX_MOVE_COUNT
    /\ tPrev' = tPriority.recommendedDepth
    /\ tPriority' = Trim(tPriority, moveIndex)
    /\ tTrims' = tTrims + 1
    /\ tAsserted' = (tAsserted \/ TrimAsserts(tPriority, moveIndex))
    /\ UNCHANGED tFirst

\* movePriority.trim(moveIndex), LOG_TABLE read past its end
TrimPastTable(moveIndex) ==
    /\ tTrims \in {0, 1}
    /\ tPriority.recommendedDepth + 1 >= MAX_MOVE_COUNT
    /\ tPrev' = tPriority.recommendedDepth
    /\ \E reducedDepth \in ReducedDepths(tPriority.recommendedDepth + 1, moveIndex + 1) :
          tPriority' = TrimBy(tPriority, reducedDepth)
    /\ tTrims' = tTrims + 1
    /\ tAsserted' = (tAsserted \/ TrimAsserts(tPriority, moveIndex))
    /\ UNCHANGED tFirst

TrimNext ==
    \/ \E moveIndex \in TrimIndices :
          TrimInTable(moveIndex)
            /\ UNCHANGED <<coordVars, threadVars, searchVars, safeVars, stopRequested>>
    \/ \E moveIndex \in TrimIndicesPastTable :
          TrimPastTable(moveIndex)
            /\ UNCHANGED <<coordVars, threadVars, searchVars, safeVars, stopRequested>>

SpecTrim == TrimInit /\ [][TrimNext]_vars

----------------------------------------------------------------------------
(* SafeUnsigned<std::uint8_t>::subToMin on one value *)

\* the values of subbed tried for a value and a min: the ends of the range and
\* the values next to value and to value - min, where the branches change
SubbedValues(value, min) ==
    {0, 1, value - min - 1, value - min, value - min + 1,
     value - 1, value, value + 1, U8Max} \cap (0..U8Max)

SafeInit ==
    /\ m_value \in 0..U8Max
    /\ uMin \in 0..U8Max
    /\ uSubbed \in SubbedValues(m_value, uMin)
    /\ uOriginal = m_value
    /\ upc = "call"
    /\ uSubAsserted = FALSE
    /\ stopRequested = FALSE
    /\ CoordParked
    /\ ThreadParked
    /\ SearchParked
    /\ TrimParked

\* value.subToMin(subbed, min), zAssert(min <= *this) fails: the process aborts
SubToMinAbort ==
    /\ upc = "call"
    /\ SubToMinAsserts(m_value, uMin)
    /\ upc' = "aborted"
    /\ UNCHANGED <<m_value, uOriginal, uSubbed, uMin, uSubAsserted>>

\* value.subToMin(subbed, min), zAssert(min <= *this) holds
SubToMinReturn ==
    /\ upc = "call"
    /\ ~SubToMinAsserts(m_value, uMin)
    /\ m_value' = SubToMin(m_value, uSubbed, uMin)
    /\ uSubAsserted' = (~(m_value < uSubbed) /\ SubAsserts(m_value, uSubbed))
    /\ upc' = "returned"
    /\ UNCHANGED <<uOriginal, uSubbed, uMin>>

SafeNext ==
    \/ SubToMinAbort
          /\ UNCHANGED <<coordVars, threadVars, searchVars, trimVars, stopRequested>>
    \/ SubToMinReturn
          /\ UNCHANGED <<coordVars, threadVars, searchVars, trimVars, stopRequested>>

SpecSafe == SafeInit /\ [][SafeNext]_vars

----------------------------------------------------------------------------
(* The searcher: one Searcher::operator() with a concurrent cancel *)

\* the depths a searcher is given: a helper, whose shuffled move orders
\* multiply the runs, is searched one ply less deep than the main searcher
SearchDepths(helper) == 1..(IF helper THEN MaxDepthS - 1 ELSE MaxDepthS)

\* Searcher::Searcher and the arguments of operator(): the table is empty,
\* no killer move is known, depth was given by assignDepths
SearchInit ==
    /\ sStage = "idle"
    /\ m_helper \in BOOLEAN
    /\ sDepth \in SearchDepths(m_helper)
    /\ iterDepth = 0
    /\ sRoot \in (IF m_helper THEN HelperRoots ELSE SearchRoots)
    /\ sRepetitionMap \in SearchRepetitionMaps
    /\ stack = <<>>
    /\ returned = NoReturn
    /\ table = EmptyTable
    /\ m_killerMoves = NoKillerMoves
    /\ sResult = DefaultMoveRating
    /\ sPast = <<>>
    /\ stopRequested = FALSE
    /\ CoordParked
    /\ ThreadParked
    /\ TrimParked
    /\ SafeParked

Top == stack[Len(stack)]
SetTop(f) == [stack EXCEPT ![Len(stack)] = f]
Pop == SubSeq(stack, 1, Len(stack) - 1)
searchConfig == <<m_helper, sDepth, sRoot, sRepetitionMap, sPast>>

\* the call on top of the stack returns `value` to its caller; `searched`
\* tells whether it returns from bestChildPosition, `stop` whether the stop
\* request was there when it tested for it or searched a child
Return(value, searched) ==
    /\ stack' = Pop
    /\ returned' = [valid |-> TRUE, value |-> value, pos |-> Top.pos,
                    count |-> GetPositionCount(Top.repetitionMap, Top.pos),
                    stop |-> IF searched THEN Top.stopAtChild ELSE stopRequested,
                    searched |-> searched]

\* Searcher::operator(): iterativeDeepening starts its first iteration
SearchBegin ==
    /\ sStage = "idle"
    /\ sStage' = "running"
    /\ iterDepth' = IF 1 < sDepth THEN 1 ELSE sDepth
    /\ stack' = <<RootFrame(sRoot, iterDepth', sRepetitionMap)>>
    /\ UNCHANGED <<searchConfig, returned, table, m_killerMoves, sResult,
                   stopRequested>>

\* startAlphaBetaSearch returned: the next iteration, or the result of the
\* last one
IterationReturn ==
    /\ sStage = "running"
    /\ stack = <<>>
    /\ returned.valid
    /\ IF iterDepth < sDepth
       THEN /\ iterDepth' = iterDepth + 1
            /\ stack' = <<RootFrame(sRoot, iterDepth', sRepetitionMap)>>
            /\ UNCHANGED <<sStage, sResult>>
       ELSE /\ sResult' = returned.value
            /\ sStage' = "done"
            /\ UNCHANGED <<iterDepth, stack>>
    /\ returned' = NoReturn
    /\ UNCHANGED <<searchConfig, table, m_killerMoves, stopRequested>>

\* TryShortCircuitEnter with the test of stopRequested made first
TryShortCircuitEnterStopFirst ==
    /\ sStage = "running"
    /\ stack # <<>>
    /\ Top.phase = "enter"
    /\ IF stopRequested
       THEN Return(MoveRating(NullMove, Rating(Top.pos), FALSE, NoLevel), FALSE)
       ELSE IF LegalMoves(Top.pos) = <<>>
       THEN Return(TerminalResult(IsCheckmate(Top.pos),
                                  CheckmatedRating(Top.maximizing), Top.level), FALSE)
       ELSE IF GetPositionCount(Top.repetitionMap, Top.pos) >= 3
       THEN Return(MoveRating(NullMove, 0, TRUE, NoLevel), FALSE)
       ELSE stack' = SetTop([Top EXCEPT !.phase = "table"]) /\ UNCHANGED returned
    /\ UNCHANGED <<searchConfig, sStage, iterDepth, table, m_killerMoves, sResult,
                   stopRequested>>

\* tryShortCircuit up to the first load of stopRequested
TryShortCircuitEnter ==
    /\ sStage = "running"
    /\ stack # <<>>
    /\ Top.phase = "enter"
    /\ IF LegalMoves(Top.pos) = <<>>
       THEN Return(TerminalResult(IsCheckmate(Top.pos),
                                  CheckmatedRating(Top.maximizing), Top.level), FALSE)
       ELSE IF GetPositionCount(Top.repetitionMap, Top.pos) >= 3
       THEN Return(MoveRating(NullMove, 0, TRUE, NoLevel), FALSE)
       ELSE IF stopRequested
       THEN Return(MoveRating(NullMove, Rating(Top.pos), FALSE, NoLevel), FALSE)
       ELSE stack' = SetTop([Top EXCEPT !.phase = "table"]) /\ UNCHANGED returned
    /\ UNCHANGED <<searchConfig, sStage, iterDepth, table, m_killerMoves, sResult,
                   stopRequested>>

\* ConsultEntry without the exception for the root of a helper
ConsultEntryAtHelperRoot(f, stop, tbl) ==
    LET entry == GetPositionEntry(tbl, f.pos)
        ab == f.alphaBeta
        hit == [returns |-> TRUE, alphaBeta |-> ab, pvMove |-> entry.bestMove]
        Miss(w, pv) == [returns |-> FALSE, alphaBeta |-> w, pvMove |-> pv]
    IN  IF stop \/ ~entry.present THEN Miss(ab, NullMove)
        ELSE IF WouldMakeRepetition(f.pos, entry.bestMove, f.repetitionMap)
                \/ entry.depth < f.remainingDepth
        THEN Miss(ab, entry.bestMove)
        ELSE IF entry.bound = "InWindow" THEN hit
        ELSE IF entry.bound = "LowerBound"
        THEN (IF entry.rating >= ab.beta THEN hit
              ELSE Miss(UpdateAlpha(ab, entry.rating), entry.bestMove))
        ELSE (IF entry.rating <= ab.alpha THEN hit
              ELSE Miss(UpdateBeta(ab, entry.rating), entry.bestMove))

\* ConsultEntry without the test of the entry's depth
ConsultEntryAnyDepth(f, stop, tbl) ==
    LET canUseEntry == ~(m_helper /\ f.level = 0)
        entry == GetPositionEntry(tbl, f.pos)
        ab == f.alphaBeta
        hit == [returns |-> TRUE, alphaBeta |-> ab, pvMove |-> entry.bestMove]
        Miss(w, pv) == [returns |-> FALSE, alphaBeta |-> w, pvMove |-> pv]
    IN  IF stop \/ ~canUseEntry \/ ~entry.present THEN Miss(ab, NullMove)
        ELSE IF WouldMakeRepetition(f.pos, entry.bestMove, f.repetitionMap)
        THEN Miss(ab, entry.bestMove)
        ELSE IF entry.bound = "InWindow" THEN hit
        ELSE IF entry.bound = "LowerBound"
        THEN (IF entry.rating >= ab.beta THEN hit
              ELSE Miss(UpdateAlpha(ab, entry.rating), entry.bestMove))
        ELSE (IF entry.rating <= ab.alpha THEN hit
              ELSE Miss(UpdateBeta(ab, entry.rating), entry.bestMove))

\* What the table gives the node: whether tryShortCircuit returns the entry,
\* the window it goes on with, and the PV move.
ConsultEntry(f, stop, tbl) ==
    LET canUseEntry == ~(m_helper /\ f.level = 0)
        entry == GetPositionEntry(tbl, f.pos)
        ab == f.alphaBeta
        hit == [returns |-> TRUE, alphaBeta |-> ab, pvMove |-> entry.bestMove]
        Miss(w, pv) == [returns |-> FALSE, alphaBeta |-> w, pvMove |-> pv]
    IN  IF stop \/ ~canUseEntry \/ ~entry.present THEN Miss(ab, NullMove)
        ELSE IF WouldMakeRepetition(f.pos, entry.bestMove, f.repetitionMap)
                \/ entry.depth < f.remainingDepth
        THEN Miss(ab, entry.bestMove)
        ELSE IF entry.bound = "InWindow" THEN hit
        ELSE IF entry.bound = "LowerBound"
        THEN (IF entry.rating >= ab.beta THEN hit
              ELSE Miss(UpdateAlpha(ab, entry.rating), entry.bestMove))
        ELSE (IF entry.rating <= ab.alpha THEN hit
              ELSE Miss(UpdateBeta(ab, entry.rating), entry.bestMove))

\* tryShortCircuit from the second load of stopRequested on, and the head of
\* bestChildPosition: the table, the leaf test, the ordered moves
TryShortCircuitTable ==
    /\ sStage = "running"
    /\ stack # <<>>
    /\ Top.phase = "table"
    /\ LET c == ConsultEntry(Top, stopRequested, table)
           entry == GetPositionEntry(table, Top.pos)
       IN  IF c.returns
           THEN Return(MoveRating(entry.bestMove, entry.rating, FALSE, NoLevel), FALSE)
           ELSE IF Top.remainingDepth = 0
           THEN Return(MoveRating(NullMove, Rating(Top.pos), FALSE, NoLevel), FALSE)
           ELSE /\ \E killerMoves \in KillerMovesRead(Top.level, Top.pos) :
                   \E ps \in (LET ordered == GetMovePrioritiesImpl(Top.pos,
                                      Top.remainingDepth, c.pvMove, killerMoves)
                              IN  IF m_helper /\ Top.level < RANDOMIZATION_CUTOFF
                                  THEN Shuffles(ordered) ELSE {ordered}) :
                      stack' = SetTop([Top EXCEPT
                          !.phase = "loop",
                          !.alphaBeta = c.alphaBeta,
                          !.originalAlphaBeta = c.alphaBeta,
                          !.movePriorities = ps,
                          !.i = 1,
                          !.bestRating = MoveRating(NullMove,
                              WorstPossibleRating(Top.maximizing), FALSE, NoLevel),
                          !.bound = "InWindow",
                          !.didNotPrune = TRUE])
                /\ UNCHANGED returned
    /\ UNCHANGED <<searchConfig, sStage, iterDepth, table, m_killerMoves, sResult,
                   stopRequested>>

\* Node child{node, movePriority}; tryShortCircuit<!Maximizing>(child, alphaBeta)
SearchChild ==
    /\ sStage = "running"
    /\ stack # <<>>
    /\ Top.phase = "loop"
    /\ LET p == Top.movePriorities[Top.i]
       IN  stack' = Append(SetTop([Top EXCEPT !.phase = "await",
                                              !.stopAtChild = @ \/ stopRequested]),
                           ChildFrame(Top, p.move, p.recommendedDepth))
    /\ UNCHANGED <<searchConfig, sStage, iterDepth, returned, table, m_killerMoves,
                   sResult, stopRequested>>

\* mayChooseThisMove
MayChooseThisMove(maximizing, rating, ab) ==
    IF maximizing THEN rating >= ab.alpha ELSE rating <= ab.beta

\* the rating of a child against the best one so far
BetterRating(maximizing, rating, best) ==
    IF maximizing THEN rating > best ELSE rating < best

\* the body of the loop after the child returned: the full-depth search of a
\* trimmed move, or the best rating, the window, the prune and the breaks
ChildReturn ==
    /\ sStage = "running"
    /\ stack # <<>>
    /\ Top.phase = "await"
    /\ returned.valid
    /\ LET f == Top
           p == f.movePriorities[f.i]
           childRating == returned.value
           best == IF BetterRating(f.maximizing, childRating.rating, f.bestRating.rating)
                   THEN [childRating EXCEPT !.move = p.move]
                   ELSE f.bestRating
           ab == Update(f.maximizing, f.alphaBeta, best.rating)
           g == [f EXCEPT !.bestRating = best, !.alphaBeta = ab, !.research = FALSE]
           quiet == LegalMoves(f.pos)[MoveIn(f.pos, p.move)].capturedPiece = 0
       IN  IF /\ ~f.research
              /\ p.trimmed
              /\ MayChooseThisMove(f.maximizing, childRating.rating, f.alphaBeta)
           THEN /\ stack' = Append(SetTop([f EXCEPT !.research = TRUE,
                                                   !.stopAtChild = @ \/ stopRequested]),
                                   ChildFrame(f, p.move, f.remainingDepth - 1))
                /\ UNCHANGED m_killerMoves
           ELSE IF CanPrune(ab)
           THEN /\ m_killerMoves' =
                       IF quiet /\ f.level < MAX_DEPTH
                       THEN [m_killerMoves EXCEPT ![f.level] = AddKillerMove(@, p.move)]
                       ELSE m_killerMoves
                /\ stack' = SetTop([g EXCEPT
                       !.bound = IF f.maximizing THEN "LowerBound" ELSE "UpperBound",
                       !.didNotPrune = FALSE,
                       !.phase = "store"])
           ELSE /\ stack' = SetTop([g EXCEPT
                       !.phase = IF \/ childRating.rating = CheckmatedRating(~f.maximizing)
                                    \/ f.i = Len(f.movePriorities)
                                 THEN "store" ELSE "loop",
                       !.i = IF \/ childRating.rating = CheckmatedRating(~f.maximizing)
                                \/ f.i = Len(f.movePriorities)
                             THEN @ ELSE @ + 1])
                /\ UNCHANGED m_killerMoves
    /\ returned' = NoReturn
    /\ UNCHANGED <<searchConfig, sStage, iterDepth, table, sResult, stopRequested>>

\* the bound of the entry when the loop ended without a prune
FinalBound(f) ==
    IF ~f.didNotPrune THEN f.bound
    ELSE IF f.maximizing /\ f.bestRating.rating <= f.originalAlphaBeta.alpha
    THEN "UpperBound"
    ELSE IF ~f.maximizing /\ f.bestRating.rating >= f.originalAlphaBeta.beta
    THEN "LowerBound"
    ELSE f.bound

\* the tail of bestChildPosition without the test of invalidTTEntry
StoreAndReturnAlways ==
    /\ sStage = "running"
    /\ stack # <<>>
    /\ Top.phase = "store"
    /\ table' = StorePositionEntry(table, Top.pos,
                    PositionEntry(Top.bestRating.move, Top.bestRating.rating,
                                  Top.remainingDepth, FinalBound(Top)))
    /\ Return([Top.bestRating EXCEPT !.invalidTTEntry = FALSE], TRUE)
    /\ UNCHANGED <<searchConfig, sStage, iterDepth, m_killerMoves, sResult,
                   stopRequested>>

\* the tail of bestChildPosition: the entry is stored, the best rating returned
StoreAndReturn ==
    /\ sStage = "running"
    /\ stack # <<>>
    /\ Top.phase = "store"
    /\ table' = IF ~Top.bestRating.invalidTTEntry
                THEN StorePositionEntry(table, Top.pos,
                         PositionEntry(Top.bestRating.move, Top.bestRating.rating,
                                       Top.remainingDepth, FinalBound(Top)))
                ELSE table
    /\ Return([Top.bestRating EXCEPT !.invalidTTEntry = FALSE], TRUE)
    /\ UNCHANGED <<searchConfig, sStage, iterDepth, m_killerMoves, sResult,
                   stopRequested>>

\* findBestMoveImpl is called a second time for the same position, depth and
\* repetition map: stopRequested.store(false), the searcher runs once more on
\* the table and the killer moves the first search left
Past(result, stop) == [result |-> result, stop |-> stop]
SearchAgain ==
    /\ sStage = "done"
    /\ sPast = <<>>
    /\ sPast' = Append(sPast, Past(sResult, stopRequested))
    /\ sStage' = "idle"
    /\ sResult' = DefaultMoveRating
    /\ stopRequested' = FALSE
    /\ UNCHANGED <<m_helper, sDepth, sRoot, sRepetitionMap, iterDepth, stack,
                   returned, table, m_killerMoves>>

\* AsyncSearch::cancel while the searcher runs
SearchCancel ==
    /\ sStage = "running"
    /\ ~stopRequested
    /\ stopRequested' = TRUE
    /\ UNCHANGED searchVars

SearchNext ==
    \/ SearchBegin /\ UNCHANGED <<coordVars, threadVars, trimVars, safeVars>>
    \/ IterationReturn /\ UNCHANGED <<coordVars, threadVars, trimVars, safeVars>>
    \/ TryShortCircuitEnter /\ UNCHANGED <<coordVars, threadVars, trimVars, safeVars>>
    \/ TryShortCircuitTable /\ UNCHANGED <<coordVars, threadVars, trimVars, safeVars>>
    \/ SearchChild /\ UNCHANGED <<coordVars, threadVars, trimVars, safeVars>>
    \/ ChildReturn /\ UNCHANGED <<coordVars, threadVars, trimVars, safeVars>>
    \/ StoreAndReturn /\ UNCHANGED <<coordVars, threadVars, trimVars, safeVars>>
    \/ SearchCancel /\ UNCHANGED <<coordVars, threadVars, trimVars, safeVars>>

SpecSearch == SearchInit /\ [][SearchNext]_vars

\* two searches that run to their end, one after the other on one searcher
RepeatNext ==
    \/ SearchBegin /\ UNCHANGED <<coordVars, threadVars, trimVars, safeVars>>
    \/ IterationReturn /\ UNCHANGED <<coordVars, threadVars, trimVars, safeVars>>
    \/ TryShortCircuitEnter /\ UNCHANGED <<coordVars, threadVars, trimVars, safeVars>>
    \/ TryShortCircuitTable /\ UNCHANGED <<coordVars, threadVars, trimVars, safeVars>>
    \/ SearchChild /\ UNCHANGED <<coordVars, threadVars, trimVars, safeVars>>
    \/ ChildReturn /\ UNCHANGED <<coordVars, threadVars, trimVars, safeVars>>
    \/ StoreAndReturn /\ UNCHANGED <<coordVars, threadVars, trimVars, safeVars>>
    \/ SearchAgain /\ UNCHANGED <<coordVars, threadVars, trimVars, safeVars>>

SpecRepeat == SearchInit /\ [][RepeatNext]_vars

\* go(MAX_DEPTH + 1) on the first position of the deep line: one search of the
\* main searcher that runs to its end (a ponder search, of depth 255, goes
\* through the same iterations first)
DeepDepth == MAX_DEPTH + 1
DeepInit ==
    /\ sStage = "idle"
    /\ m_helper = FALSE
    /\ sDepth = DeepDepth
    /\ iterDepth = 0
    /\ sRoot = LineName(0)
    /\ sRepetitionMap = EmptyRepetitionMap
    /\ stack = <<>>
    /\ returned = NoReturn
    /\ table = EmptyTable
    /\ m_killerMoves = NoKillerMoves
    /\ sResult = DefaultMoveRating
    /\ sPast = <<>>
    /\ stopRequested = FALSE
    /\ CoordParked
    /\ ThreadParked
    /\ TrimParked
    /\ SafeParked

DeepNext ==
    \/ SearchBegin /\ UNCHANGED <<coordVars, threadVars, trimVars, safeVars>>
    \/ IterationReturn /\ UNCHANGED <<coordVars, threadVars, trimVars, safeVars>>
    \/ TryShortCircuitEnter /\ UNCHANGED <<coordVars, threadVars, trimVars, safeVars>>
    \/ TryShortCircuitTable /\ UNCHANGED <<coordVars, threadVars, trimVars, safeVars>>
    \/ SearchChild /\ UNCHANGED <<coordVars, threadVars, trimVars, safeVars>>
    \/ ChildReturn /\ UNCHANGED <<coordVars, threadVars, trimVars, safeVars>>
    \/ StoreAndReturn /\ UNCHANGED <<coordVars, threadVars, trimVars, safeVars>>

SpecDeep == DeepInit /\ [][DeepNext]_vars

----------------------------------------------------------------------------
(* Properties of the search thread *)

\* nothing is in progress and nothing will happen without a new command: the
\* commanding thread is between commands, the search thread blocked in the wait
Quiescent == cpc = "idle" /\ wpc = "t_blocked"

\* C1: after set_position(P), P with legal moves, then go(d) and no later
\* command, the search thread emits exactly one move: never more than one,
\* and one by the time it has come to rest.
C1_GoEmitsOneMove ==
    (/\ Len(cmds) = 2
     /\ cmds[1] = Command("setPosition", TRUE)
     /\ cmds[2].op = "go")
       => /\ Len(out) <= 1
          /\ Quiescent => Len(out) = 1

\* C2: a stop() issued while the committed search of a go(d) runs makes that
\* search return no move, nothing is emitted for the go, and the thread comes
\* to rest with should_ponder false.
C2_StopSuppressesMove ==
    (/\ Len(cmds) = 3
     /\ cmds[1] = Command("setPosition", TRUE)
     /\ cmds[2].op = "go"
     /\ cmds[3] = Command("stop", TRUE))
       => /\ wpc = "r_ret" => ~found.some
          /\ out = <<>>
          /\ Quiescent => ~m_shouldPonder

\* a search is running on the pool, not cancelled
SearchRunsUncancelled == wpc \in {"t_run", "r_run"} /\ ~stopRequested

\* C3: once the destructor has cancelled and requested stop, the in-flight
\* search returns and no search is left running while it joins.
C3_NoSearchLeftRunning == cpc = "d_join" => ~SearchRunsUncancelled

\* C4: should_ponder is cleared after a ponder search only for a terminal
\* position; so as long as the only commands are set_position of positions
\* with legal moves, should_ponder stays true.
C4_PonderFlagKept ==
    (/\ cmds # <<>>
     /\ \A i \in 1..Len(cmds) : cmds[i] = Command("setPosition", TRUE))
       => m_shouldPonder

\* C5: a move returned by a committed search, the thread not shutting down,
\* is emitted; then, unless calculation_requested was set meanwhile, the
\* stored position becomes the searched position with the move applied and
\* should_ponder true; else position and should_ponder are left as they are.
C5_MoveAppliedToSearchedPosition ==
    [][/\ (wpc = "r_ret" /\ wpc' # "r_ret" /\ found.some /\ ~stopToken)
             => out' = Append(out, found.move)
       /\ (wpc = "r_apply" /\ wpc' # "r_apply" /\ ~m_calculationRequested)
             => /\ m_state'.pos = ApplyMove(stateCopy.pos, found.move)
                /\ m_shouldPonder'
       /\ (wpc = "r_apply" /\ wpc' # "r_apply" /\ m_calculationRequested)
             => UNCHANGED <<m_state, m_shouldPonder>>]_vars

\* every move of a position was searched from the position it was applied to
MovesSearchedHere(pos) ==
    \A k \in 2..Len(pos) : pos[k] = BestMoveOf(SubSeq(pos, 1, k - 1))

\* C24: the stored position is a position given by set_position, advanced only
\* by moves that were each searched from the stored position they were
\* applied to; a move found for an older snapshot is never applied to a
\* position installed by a later set_position.
C24_StoredPositionSearchedHere ==
    /\ m_state.pos[1] \in GuiPositions \cup {"S"}
    /\ MovesSearchedHere(m_state.pos)

\* the commands of one kind issued so far
Issued(op) == {k \in 1..Len(cmds) : cmds[k].op = op}
\* the command whose cancel() is pending has written the shared state, and the
\* search thread has taken that state: for go, m_calculationRequested is false
\* again, which only the snapshot of run does; for the first setPosition, the
\* snapshot of the search thread holds the position it installed
ObservedCommand ==
    \/ cpc = "go_cancel" /\ ~m_calculationRequested
    \/ /\ cpc = "sp_cancel"
       /\ Cardinality(Issued("setPosition")) = 1
       /\ stateCopy.pos[1] = m_state.pos[1]
       /\ stateCopy.pos[1] \in GuiPositions
\* a search is in flight: findBestMoveImpl has reset stopRequested and some
\* searcher has yet to test it at the root of its last iteration
SearchInFlight == wpc \in {"t_run", "r_run"} /\ rootsLeft > 0

\* C25: the cancel() of a setPosition or go never stops a search that the
\* search thread started after it had taken the state written by that same
\* command.
C25_CancelSparesLaterSearch ==
    [][(cpc \in {"go_cancel", "sp_cancel"} /\ cpc' # cpc /\ ObservedCommand)
          => ~(SearchInFlight /\ stopRequested')]_vars

\* the search thread stands inside think, its ponder search included
InThink == wpc \in {"t_top", "t_peek", "t_wait", "t_blocked", "t_find", "t_run", "t_ret"}

\* C26: moves are written only for committed searches: the moves written never
\* outnumber the go calls made; no step of think, the ponder search included,
\* writes a move; a committed search starts only from the snapshot of run, and
\* that snapshot is taken with m_calculationRequested true and clears it in
\* the same critical section.
C26_OnlyCommittedSearchesEmit ==
    [][/\ Len(out') <= Cardinality(Issued("go"))'
       /\ InThink => out' = out
       /\ (out' # out) => (wpc = "r_ret" /\ found.some /\ out' = Append(out, found.move))
       /\ (wpc' = "r_run" /\ wpc # "r_run") => wpc = "r_find"
       /\ (wpc' = "r_find" /\ wpc # "r_find") =>
             /\ wpc = "r_snap"
             /\ m_calculationRequested
             /\ ~m_calculationRequested'
             /\ stateCopy' = m_state]_vars
\* two go calls have each had their move written, with a ponder search run
\* in between
C26_Witness == Len(out) = 2 /\ Cardinality(Issued("go")) = 2 /\ InThink

----------------------------------------------------------------------------
(* Properties of the searcher *)

\* every state of the searcher is well-formed
SearchTypeOK ==
    /\ sStage \in {"idle", "running", "done"}
    /\ \A k \in 1..Len(stack) : stack[k].level = k - 1

\* the call that just returned ran on a node with legal moves that is no
\* threefold repetition, and the stop request was there while it ran
ReturnedUnderStop ==
    /\ returned.valid
    /\ returned.stop
    /\ LegalMoves(returned.pos) # <<>>
    /\ returned.count < 3

\* C7: once stopRequested is true, every call of tryShortCircuit in flight on
\* a node that is neither terminal nor a threefold repetition returns the null
\* move together with the heuristic rating of its own node.
C7_CancelledCallReturnsNull ==
    ReturnedUnderStop =>
        /\ returned.value.move = NullMove
        /\ returned.value.rating = Rating(returned.pos)

\* the call on top is about to look its position up in the table
AtTable == sStage = "running" /\ stack # <<>> /\ Top.phase = "table"
\* ... and the lookup is made and finds an entry
EntryFound ==
    /\ AtTable
    /\ ~stopRequested
    /\ ~(m_helper /\ Top.level = 0)
    /\ GetPositionEntry(table, Top.pos).present
\* the two conditions of the claim on the entry found
EntryDeepEnough == GetPositionEntry(table, Top.pos).depth >= Top.remainingDepth
EntryRepeats ==
    GetPositionCount(Top.repetitionMap,
        ChildPosition(Top.pos, GetPositionEntry(table, Top.pos).bestMove)) + 1 >= 2
\* the step returns the entry: the call ends with the entry's move and rating
ReturnsEntry ==
    /\ Len(stack') < Len(stack)
    /\ returned'.value.move # NullMove
    /\ returned'.value = MoveRating(GetPositionEntry(table, Top.pos).bestMove,
                                    GetPositionEntry(table, Top.pos).rating,
                                    FALSE, NoLevel)
\* the step goes on to the children with a window other than the one given
NarrowsWindow ==
    /\ Len(stack') = Len(stack)
    /\ stack'[Len(stack)].alphaBeta # Top.alphaBeta
\* the step does what it does without an entry, but for the PV move, which
\* leads the unshuffled order
IgnoresEntryButForHint ==
    IF Top.remainingDepth = 0
    THEN /\ Len(stack') < Len(stack)
         /\ returned'.value = MoveRating(NullMove, Rating(Top.pos), FALSE, NoLevel)
    ELSE /\ Len(stack') = Len(stack)
         /\ stack'[Len(stack)].alphaBeta = Top.alphaBeta
         /\ (~(m_helper /\ Top.level < RANDOMIZATION_CUTOFF)
               /\ HasMove(Top.pos, GetPositionEntry(table, Top.pos).bestMove))
              => stack'[Len(stack)].movePriorities[1].move
                    = GetPositionEntry(table, Top.pos).bestMove

\* C11: tryShortCircuit returns a table entry or narrows the window by it only
\* when the entry's depth is at least the node's remaining depth and its best
\* move would not bring the child to a repetition count of 2; an entry failing
\* either test changes neither result nor window and gives only the PV move.
C11_EntryUsedOnlyWhenDeepAndFresh ==
    [][(AtTable /\ stack' # stack) =>
         /\ (ReturnsEntry \/ NarrowsWindow)
               => (EntryFound /\ EntryDeepEnough /\ ~EntryRepeats)
         /\ (EntryFound /\ (~EntryDeepEnough \/ EntryRepeats))
               => IgnoresEntryButForHint]_vars

\* an entry deep enough is found whose best move would repeat a position
C11_Witness == EntryFound /\ EntryDeepEnough /\ EntryRepeats

\* the root call of a helper is about to reach the table lookup
HelperRootAtTable == AtTable /\ m_helper /\ Top.level = 0
\* the step takes nothing from the table: the children are searched with the
\* window given, in an order made without a PV move
TakesNothingFromTable ==
    /\ Len(stack') = Len(stack)
    /\ stack'[Len(stack)].alphaBeta = Top.alphaBeta
    /\ stack'[Len(stack)].movePriorities \in
          Shuffles(GetMovePrioritiesImpl(Top.pos, Top.remainingDepth, NullMove,
                                         m_killerMoves[Top.level].killerMoves))
\* the root call of a helper is about to leave bestChildPosition
HelperRootAtStore ==
    sStage = "running" /\ stack # <<>> /\ m_helper /\ Top.level = 0 /\ Top.phase = "store"
\* the step stores the result of the call as every call does: the best move
\* and rating at the node's remaining depth, unless the best child was a
\* threefold repetition
StoresResult ==
    IF Top.bestRating.invalidTTEntry THEN table' = table
    ELSE /\ table'[Top.pos].present
         /\ table'[Top.pos].bestMove = Top.bestRating.move
         /\ table'[Top.pos].rating = Top.bestRating.rating
         /\ table'[Top.pos].depth = Top.remainingDepth

\* C12: the root call of a helper takes nothing from the table, whatever the
\* table holds for the root: no return of the entry, no change of the window,
\* no PV move; it stores its result on return as every call does; and at the
\* levels from 1 on a helper does use the table.
C12_HelperRootSkipsTable ==
    [][/\ (HelperRootAtTable /\ stack' # stack) => TakesNothingFromTable
       /\ (HelperRootAtStore /\ stack' # stack) => StoresResult
       /\ (/\ EntryFound /\ m_helper /\ stack' # stack
           /\ EntryDeepEnough /\ ~EntryRepeats
           /\ GetPositionEntry(table, Top.pos).bound = "InWindow") => ReturnsEntry]_vars

\* the root of a helper stands before an entry that any other call would return
C12_Witness ==
    /\ HelperRootAtTable
    /\ ~stopRequested
    /\ GetPositionEntry(table, Top.pos).present
    /\ GetPositionEntry(table, Top.pos).bound = "InWindow"
    /\ EntryDeepEnough
    /\ ~EntryRepeats

\* the move `id` takes a piece
IsCapture(id) ==
    \E pos \in Positions : \E k \in 1..Len(LegalMoves(pos)) :
        LegalMoves(pos)[k].id = id /\ LegalMoves(pos)[k].capturedPiece # 0
\* every ring holds null moves and quiet moves only, its index within the ring
KillerRingsQuiet ==
    \A l \in DOMAIN m_killerMoves :
        /\ m_killerMoves[l].index \in 0..(MAX_KILLER_MOVES - 1)
        /\ \A k \in 1..MAX_KILLER_MOVES :
              \/ m_killerMoves[l].killerMoves[k] = NullMove
              \/ ~IsCapture(m_killerMoves[l].killerMoves[k])
\* the step has the call on top prune on the move it had searched
PrunesOnMove ==
    /\ sStage = "running" /\ stack # <<>> /\ Top.phase = "await"
    /\ Len(stack') = Len(stack)
    /\ stack'[Len(stack)].phase = "store"
    /\ ~stack'[Len(stack)].didNotPrune
    /\ stack'[Len(stack)].alphaBeta.beta <= stack'[Len(stack)].alphaBeta.alpha
\* the step writes `move` into the ring of `level` at its index and advances
\* the index by one modulo 3, leaving the other rings alone
InsertsKiller(level, move) ==
    /\ \A l \in DOMAIN m_killerMoves : l # level => m_killerMoves'[l] = m_killerMoves[l]
    /\ m_killerMoves'[level].killerMoves =
          [m_killerMoves[level].killerMoves EXCEPT ![m_killerMoves[level].index + 1] = move]
    /\ m_killerMoves'[level].index = (m_killerMoves[level].index + 1) % MAX_KILLER_MOVES

\* C13: every slot of every killer ring holds the null move or a move without
\* a captured piece and every ring's index is in [0, 3); the rings change only
\* when a call prunes on a quiet move, which then enters the ring of the
\* call's level at the index, the index advancing by one modulo 3.
C13_KillerRings ==
    /\ []KillerRingsQuiet
    /\ [][m_killerMoves' # m_killerMoves =>
             /\ PrunesOnMove
             /\ ~IsCapture(Top.movePriorities[Top.i].move)
             /\ InsertsKiller(Top.level, Top.movePriorities[Top.i].move)]_vars

\* a call has pruned on a quiet move that now sits in the ring of its level
C13_Witness ==
    /\ sStage = "running" /\ stack # <<>> /\ Top.phase = "store"
    /\ ~Top.didNotPrune
    /\ \E k \in 1..MAX_KILLER_MOVES :
          m_killerMoves[Top.level].killerMoves[k] = Top.movePriorities[Top.i].move

\* the least and the greatest of a non-empty set of ratings
MinOf(S) == CHOOSE x \in S : \A y \in S : x <= y
MaxOf(S) == CHOOSE x \in S : \A y \in S : x >= y

\* The minimax value of a position searched to a depth, without window, table,
\* move ordering or reduction: the terminal ratings of tryShortCircuit, the
\* heuristic rating at depth 0, the best child otherwise.
RECURSIVE Minimax(_, _)
Minimax(pos, depth) ==
    LET maximizing == Game[pos].white
        moves == LegalMoves(pos)
        children == {Minimax(moves[k].to, depth - 1) : k \in 1..Len(moves)}
    IN  IF moves = <<>>
        THEN (IF IsCheckmate(pos) THEN CheckmatedRating(maximizing) ELSE 0)
        ELSE IF depth = 0 THEN Rating(pos)
        ELSE IF maximizing THEN MaxOf(children) ELSE MinOf(children)

\* the entry of a position agrees with the minimax value at the entry's depth
EntrySound(pos) ==
    LET entry == GetPositionEntry(table, pos)
        value == Minimax(pos, entry.depth)
    IN  entry.present =>
            CASE entry.bound = "LowerBound" -> value >= entry.rating
              [] entry.bound = "UpperBound" -> value <= entry.rating
              [] OTHER -> value = entry.rating

\* C15: every entry of the transposition table bounds the minimax value of its
\* position at the entry's depth as its bound says: at least the rating for
\* LowerBound, at most for UpperBound, equal for InWindow (also after a cancel).
C15_EntriesBoundMinimax == \A pos \in Positions : EntrySound(pos)

\* the second of two searches of one searcher has returned
SearchedTwice == sStage = "done" /\ sPast # <<>>

\* C16: the main searcher, run twice without a cancel on the same position,
\* repetition map and depth, returns the same move both times, although the
\* second search starts from the table and the killer moves of the first.
C16_SecondSearchSameMove ==
    SearchedTwice /\ ~m_helper => sResult.move = sPast[1].result.move

\* the main searcher returned a move twice, and the second search could not
\* return the entry the first one left for the root: its best move repeats
C16_Witness ==
    /\ SearchedTwice
    /\ ~m_helper
    /\ sResult.move # NullMove
    /\ GetPositionEntry(table, sRoot).present
    /\ WouldMakeRepetition(sRoot, GetPositionEntry(table, sRoot).bestMove,
                           sRepetitionMap)

\* the moves of a position after which the opponent is checkmated
MatingMoves(pos) ==
    {LegalMoves(pos)[k].id : k \in {j \in 1..Len(LegalMoves(pos)) :
        LET child == LegalMoves(pos)[j].to
        IN  LegalMoves(child) = <<>> /\ IsCheckmate(child)}}

\* a search at depth 3 of a root with a mate in one has returned
MateInOneSearched ==
    sStage = "done" /\ sDepth = 3 /\ MatingMoves(sRoot) # {}

Nodes == 1..Len(stack)
RootDepth == stack[1].remainingDepth

\* C18 as stated: level + remaining depth is the root's remaining depth for
\* every node.
C18_Original ==
    \A k \in Nodes : stack[k].level + stack[k].remainingDepth = RootDepth

\* C18: every node is one level below its parent and has at most the parent's
\* remaining depth less one, so level + remaining depth never exceeds the
\* root's remaining depth; it equals it for the root, and for a child whose
\* remaining depth is its parent's less one (an untrimmed priority, a priority
\* trim did not lower, the full-depth search of a trimmed move) it is the sum
\* of the parent.
C18_LevelPlusDepthBounded ==
    \A k \in Nodes :
        /\ stack[k].level = k - 1
        /\ stack[k].level + stack[k].remainingDepth <= RootDepth
        /\ k > 1 => stack[k].remainingDepth <= stack[k - 1].remainingDepth - 1
        /\ k > 1 /\ stack[k - 1].phase = "await" /\ stack[k - 1].research =>
                stack[k].remainingDepth = stack[k - 1].remainingDepth - 1

\* a child built from a priority that trim lowered is being searched
C18_Witness ==
    \E k \in Nodes :
        /\ k > 1
        /\ stack[k - 1].movePriorities[stack[k - 1].i].trimmed
        /\ ~stack[k - 1].research
        /\ stack[k].level + stack[k].remainingDepth < RootDepth

\* the calls in flight that have taken their ring of killer moves
\* (bestChildPosition, MoveSearch.cpp:181)
TookKillerRing(k) == stack[k].phase \in {"loop", "await", "store"}

\* C19: every access to the killer-move table uses a level below MAX_DEPTH:
\* no node whose children are searched has level 30 or more.
C19_KillerLevelBelowMaxDepth ==
    \A k \in Nodes : TookKillerRing(k) => stack[k].level < MAX_DEPTH

\* the node on top is about to order its moves: what getMovePriorities is
\* given and what it returns
OrdersMoves == AtTable /\ Top.remainingDepth > 0 /\ Top.level < MAX_DEPTH
PVMoveGiven == ConsultEntry(Top, stopRequested, table).pvMove
KillerMovesGiven == m_killerMoves[Top.level].killerMoves
MovePrioritiesReturned ==
    GetMovePrioritiesImpl(Top.pos, Top.remainingDepth, PVMoveGiven, KillerMovesGiven)

IsPVMove(p) == p.move = PVMoveGiven
IsKillerMove(p) ==
    \E k \in 1..MAX_KILLER_MOVES : KillerMovesGiven[k] = p.move
IsEvasion(p) ==
    \E t \in 1..Len(Game[Top.pos].targets) : p.move \in Game[Top.pos].targets[t].evasions
Untrimmed(p) == ~p.trimmed /\ p.recommendedDepth = Top.remainingDepth - 1

\* the PV move, the killer moves and the evasions are returned untrimmed, and
\* nothing is trimmed when the parent's remaining depth is 1
OthersUntrimmed ==
    OrdersMoves =>
        \A k \in 1..Len(MovePrioritiesReturned) :
            LET p == MovePrioritiesReturned[k]
            IN  /\ IsPVMove(p) \/ IsKillerMove(p) \/ IsEvasion(p) => Untrimmed(p)
                /\ Top.remainingDepth - 1 = 0 => Untrimmed(p)

\* C20: in the list getMovePriorities returns, the PV move, the killer moves
\* of the level, the captures and the evasions are neither flagged trimmed nor
\* reduced below the parent's remaining depth less one, and nothing is trimmed
\* when that depth is 0; also at nodes without an attacked ally piece.
C20_OnlyQuietTailTrimmed ==
    /\ OthersUntrimmed
    /\ OrdersMoves =>
          \A k \in 1..Len(MovePrioritiesReturned) :
              IsCapture(MovePrioritiesReturned[k].move)
                  => Untrimmed(MovePrioritiesReturned[k])

\* a call of tryShortCircuit is at its first test
AtEnter == sStage = "running" /\ stack # <<>> /\ Top.phase = "enter"
IsTerminal == LegalMoves(Top.pos) = <<>>
IsThreefold == GetPositionCount(Top.repetitionMap, Top.pos) >= 3
\* the step ends the call with `value`
ReturnsValue(value) == Len(stack') < Len(stack) /\ returned'.value = value
\* the step of a call at its first test, in the order of the tests
EntersInOrder ==
    IF IsTerminal
    THEN ReturnsValue(IF IsCheckmate(Top.pos)
                      THEN MoveRating(NullMove, CheckmatedRating(Top.maximizing),
                                      FALSE, Top.level)
                      ELSE MoveRating(NullMove, 0, FALSE, NoLevel))
    ELSE IF IsThreefold
    THEN ReturnsValue(MoveRating(NullMove, 0, TRUE, NoLevel))
    ELSE IF stopRequested
    THEN ReturnsValue(MoveRating(NullMove, Rating(Top.pos), FALSE, NoLevel))
    ELSE Len(stack') = Len(stack) /\ stack'[Len(stack)].phase = "table"
\* the step of a call at the table, in the order of the tests: under a stop
\* request the table is not read, a usable InWindow entry is returned also by
\* a leaf, a leaf without it returns its heuristic rating, any other node
\* goes on to its children
LooksUpInOrder ==
    /\ stopRequested => IF Top.remainingDepth = 0
                        THEN ReturnsValue(MoveRating(NullMove, Rating(Top.pos),
                                                     FALSE, NoLevel))
                        ELSE /\ Len(stack') = Len(stack)
                             /\ stack'[Len(stack)].alphaBeta = Top.alphaBeta
                             /\ stack'[Len(stack)].movePriorities \in
                                   Shuffles(GetMovePrioritiesImpl(Top.pos,
                                       Top.remainingDepth, NullMove,
                                       m_killerMoves[Top.level].killerMoves))
    /\ (/\ EntryFound /\ EntryDeepEnough /\ ~EntryRepeats
        /\ GetPositionEntry(table, Top.pos).bound = "InWindow") => ReturnsEntry
    /\ (Top.remainingDepth = 0 /\ ~ReturnsEntry)
          => ReturnsValue(MoveRating(NullMove, Rating(Top.pos), FALSE, NoLevel))
    /\ Top.remainingDepth > 0 => (ReturnsEntry \/ Len(stack') = Len(stack))

\* C21: tryShortCircuit tests in the order no legal moves, repetition count
\* of 3, stop request, table, leaf, children: a terminal node returns its
\* result and a threefold-repeated node (null, 0, invalid) also under a stop
\* request; a call that sees the stop request at its test returns (null, own
\* heuristic rating, not invalid) whatever the table holds, and the table is
\* not read under a stop request; a leaf returns a usable InWindow entry
\* rather than its heuristic rating.
C21_ChecksInOrder ==
    [][/\ (AtEnter /\ stack' # stack) => EntersInOrder
       /\ (AtTable /\ stack' # stack /\ Top.level < MAX_DEPTH) => LooksUpInOrder]_vars

\* under a stop request a call stands at its first test on a node that is a
\* threefold repetition
C21_Witness == AtEnter /\ stopRequested /\ IsThreefold /\ ~IsTerminal

\* bestChildPosition has ended its loop and is about to store and return
AtStore == sStage = "running" /\ stack # <<>> /\ Top.phase = "store"
\* the best child's result carries the flag of a threefold repetition
BestIsRepetition == Top.bestRating.invalidTTEntry
\* the number of times the best child's position has been met, the child counted
BestChildCount ==
    LET child == ChildPosition(Top.pos, Top.bestRating.move)
    IN  GetPositionCount(Push(Top.repetitionMap, child), child)
\* exactly one entry is written, at the node's position, with the best move and
\* rating, the node's remaining depth and a bound
StoresOneEntry ==
    /\ \A pos \in Positions \ {Top.pos} : table'[pos] = table[pos]
    /\ table'[Top.pos].present
    /\ table'[Top.pos].bestMove = Top.bestRating.move
    /\ table'[Top.pos].rating = Top.bestRating.rating
    /\ table'[Top.pos].depth = Top.remainingDepth
    /\ table'[Top.pos].bound = FinalBound(Top)

\* C22: bestChildPosition leaves the transposition table as it is when its
\* best child's result has invalidTTEntry set, and the best child is then a
\* position met for at least the third time; otherwise it stores exactly one
\* entry (best move, best rating, remaining depth, bound) at the position of
\* the node; the MoveRating it returns has invalidTTEntry false, so a result
\* that carries the flag always comes straight from the repetition test of
\* tryShortCircuit.
C22_StoreUnlessRepetition ==
    [][/\ (AtStore /\ stack' # stack) =>
            /\ IF BestIsRepetition
               THEN table' = table /\ BestChildCount >= 3
               ELSE StoresOneEntry
            /\ returned'.searched
            /\ returned'.value = [Top.bestRating EXCEPT !.invalidTTEntry = FALSE]
       /\ (returned'.valid /\ returned'.value.invalidTTEntry) =>
            /\ ~returned'.searched
            /\ returned'.count >= 3
            /\ returned'.value = MoveRating(NullMove, 0, TRUE, NoLevel)]_vars
\* a node whose best child is a threefold repetition is about to return, and
\* the table holds an older entry for the node
C22_Witness == AtStore /\ BestIsRepetition /\ GetPositionEntry(table, Top.pos).present

----------------------------------------------------------------------------
(* Properties of SafeUnsigned::subToMin *)

\* max(min, value - subbed), the difference taken in the integers
ClampedDifference ==
    IF uOriginal - uSubbed < uMin THEN uMin ELSE uOriginal - uSubbed

\* C23: for 8-bit value, subbed and min with min <= value, subToMin leaves
\* max(min, value - subbed) in the value, a difference below zero counting as
\* below min; the result lies in [min, value before the call] and no zAssert
\* fires. With min > value the zAssert of the precondition fires and the value
\* is left as it was.
C23_SubToMinClamps ==
    (upc # "call") =>
        IF uMin <= uOriginal
        THEN /\ upc = "returned"
             /\ m_value = ClampedDifference
             /\ uMin <= m_value /\ m_value <= uOriginal
             /\ ~uSubAsserted
        ELSE /\ upc = "aborted"
             /\ m_value = uOriginal
\* a call that had to raise the difference to min has returned
C23_Witness ==
    /\ upc = "returned" /\ uOriginal \in 1..U8Max
    /\ uSubbed <= uOriginal /\ uOriginal - uSubbed < uMin /\ uMin < uOriginal
    /\ m_value = uMin

----------------------------------------------------------------------------
(* Properties of MovePriority::trim *)

\* C14: for a MovePriority built from a parent remaining depth in 1..255 and
\* any move index in 0..217, trim leaves the recommended depth between 0 and
\* its value before the trim, a second trim with any index does not raise it,
\* and no zAssert of SafeUnsigned fires inside trim.
C14_TrimNeverRaisesDepth ==
    /\ 0 <= tPriority.recommendedDepth
    /\ tPriority.recommendedDepth <= tPrev
    /\ tPrev <= tFirst
    /\ ~tAsserted

\* a priority of the deepest parent was trimmed twice and lost depth each time
C14_Witness ==
    /\ tTrims = 2
    /\ tFirst = U8Max - 1
    /\ tPrev < tFirst
    /\ tPriority.recommendedDepth < tPrev

----------------------------------------------------------------------------
(* Properties of the coordinator *)

NumCandidates == Len(moveCandidates)
AnyLevelSet == \E i \in 1..NumCandidates : moveCandidates[i].checkmateLevel # NoLevel
AllNonNull == \A i \in 1..NumCandidates : moveCandidates[i].move # NullMove

\* C6: findBestMoveImpl returns "no move" whenever some worker's MoveRating
\* carries the null move, and then never reaches the vote; for a root without
\* legal moves (stalemate or checkmate) it returns "no move" at every depth;
\* it returns a move only when every worker returned a non-null move.
C6_NullMoveYieldsNoMove ==
    /\ (cStage = "done" /\ \E i \in 1..NumCandidates : moveCandidates[i].move = NullMove)
          => cResult = NoMove
    /\ cStage = "voting" => AllNonNull
    /\ (cStage = "done" /\ cRoot \in {"stalemate", "checkmate"}) => cResult = NoMove
    /\ (cStage = "done" /\ cResult.some) => (AllNonNull /\ cResult.move # NullMove)

C6_Witness ==
    /\ cStage = "done"
    /\ cResult = NoMove
    /\ NumCandidates >= 2
    /\ \E i, j \in 1..NumCandidates :
          moveCandidates[i].move = NullMove /\ moveCandidates[j].move # NullMove

\* the result the claim C8 names: among the results with a level, the earliest
\* of those with the smallest level
LevelledWinner ==
    CHOOSE i \in 1..NumCandidates :
        /\ moveCandidates[i].checkmateLevel # NoLevel
        /\ \A j \in 1..NumCandidates :
              moveCandidates[j].checkmateLevel # NoLevel
                 => moveCandidates[i].checkmateLevel <= moveCandidates[j].checkmateLevel
        /\ \A j \in 1..(i - 1) :
              moveCandidates[j].checkmateLevel # moveCandidates[i].checkmateLevel

VotedOnLevels == cStage = "done" /\ cResult.some /\ AnyLevelSet

VoteWeight(k) ==
    LET worstScore == MinRating(moveCandidates)
    IN  GetVotingWeight(searcherDepth[k], moveCandidates[k], worstScore,
                        MaxRating(moveCandidates) - worstScore)

\* the weight move m has accumulated after the first k workers
RECURSIVE Accumulated(_, _)
Accumulated(m, k) ==
    IF k = 0 THEN Frac(0, 1)
    ELSE IF moveCandidates[k].move = m
         THEN FracAdd(Accumulated(m, k - 1), VoteWeight(k))
         ELSE Accumulated(m, k - 1)

VotedMoves == {moveCandidates[i].move : i \in 1..NumCandidates}
Total(m) == Accumulated(m, NumCandidates)
IsGreatest(m) == \A o \in VotedMoves : ~FracGt(Total(o), Total(m))
FirstSeen(m) == CHOOSE i \in 1..NumCandidates :
    moveCandidates[i].move = m /\ \A j \in 1..(i - 1) : moveCandidates[j].move # m
\* the first worker after whose vote m holds its final, greatest weight
FirstReached(m) == CHOOSE k \in 1..NumCandidates :
    /\ FracEq(Accumulated(m, k), Total(m))
    /\ \A j \in 1..(k - 1) : ~FracEq(Accumulated(m, j), Total(m))

VotedOnWeights == cStage = "done" /\ cResult.some /\ ~AnyLevelSet

\* C9 as stated: with no null move and no level, the vote returns the move of
\* greatest summed weight, and of several such the earliest seen.
C9_Original ==
    VotedOnWeights =>
        /\ cResult.move \in VotedMoves
        /\ IsGreatest(cResult.move)
        /\ \A o \in VotedMoves : IsGreatest(o) => FirstSeen(cResult.move) <= FirstSeen(o)

\* C9 amended: the vote returns a move of greatest summed weight, and of
\* several such the one whose accumulated weight reached that value first in
\* worker order; with two workers that is the earliest seen.
C9_GreatestWeightFirstReached ==
    VotedOnWeights =>
        /\ cResult.move \in VotedMoves
        /\ IsGreatest(cResult.move)
        /\ \A o \in VotedMoves \ {cResult.move} :
              IsGreatest(o) => FirstReached(cResult.move) < FirstReached(o)
        /\ NumCandidates <= 2 =>
              \A o \in VotedMoves : IsGreatest(o) => FirstSeen(cResult.move) <= FirstSeen(o)

C9_Witness ==
    /\ VotedOnWeights
    /\ NumCandidates >= 3
    /\ \E o \in VotedMoves \ {cResult.move} :
          IsGreatest(o) /\ FirstSeen(o) < FirstSeen(cResult.move)

\* C10: after assignDepths(max_depth), max_depth >= 1: the main worker has
\* max_depth; every helper has 1 when max_depth = 1, else the helper at list
\* index i has max_depth when i mod 2 = 1 and max_depth - 1 when i mod 2 = 0;
\* every depth is in {max_depth - 1, max_depth} and at least 1.
C10_AssignDepths ==
    cStage # "idle" =>
        /\ searcherDepth[1] = cDepth
        /\ \A k \in 2..Len(searcherDepth) :
              LET i == k - 1
              IN  searcherDepth[k] =
                     IF cDepth = 1 THEN 1
                     ELSE IF i % 2 = 1 THEN cDepth ELSE cDepth - 1
        /\ \A k \in 1..Len(searcherDepth) :
              searcherDepth[k] \in {cDepth - 1, cDepth} /\ searcherDepth[k] >= 1

C10_Witness ==
    /\ cStage # "idle"
    /\ cDepth >= 2
    /\ Len(searcherDepth) >= 3
    /\ searcherDepth[2] = cDepth
    /\ searcherDepth[3] = cDepth - 1

====
